---- MODULE Spec2Model ----
(***************************************************************************)
(* Model of the RAG wrapper: the sentence chunker (TextChunkerService),    *)
(* the chunk route, the embedding service's ranking, the in-memory vector  *)
(* store and the RagService orchestrator.                                  *)
(*                                                                         *)
(* Strings are sequences of one-character strings; "a" and "b" stand for   *)
(* any non-whitespace, non-terminator characters.                          *)
(***************************************************************************)
EXTENDS Integers, Sequences, FiniteSets, TLC

VARIABLES
    chunkReq,    \* body of the request to the chunk route
    chunkResp,   \* response of the chunk route
    backend,     \* which VectorStoreService is registered: "memory" or "qdrant"
    arrays,      \* in-memory store: the array objects that were ever this.chunks
    chunksRef,   \* in-memory store: index in arrays of the current this.chunks
    qExists,     \* Qdrant: the collection exists
    qPoints,     \* Qdrant: the points of the collection, in id order
    qInit,       \* Qdrant: position of each initializeCollection call
    qStats,      \* Qdrant: the getStats call between its two requests
    storeOut,    \* the last call of the store's interface and what it returned
    simIn,       \* arguments of a findSimilarChunks call and its query embedding
    simOut,      \* what that findSimilarChunks call returned
    reqs,        \* the upload and ask requests: position, locals, response
    clock        \* Date.now()

chunkVars == <<chunkReq, chunkResp>>
storeVars == <<backend, arrays, chunksRef, qExists, qPoints, qInit, qStats, storeOut>>
simVars == <<simIn, simOut>>
ragVars == <<reqs, clock>>
vars == <<chunkVars, storeVars, simVars, ragVars>>

----------------------------------------------------------------------------
(* Bounds of the model *)

MaxLen == 6
MaxChunkSize == 4
MaxStore == 2
MaxClears == 1
MaxCorpus == 3
MaxLimit == 3
MaxReqs == 2
MaxClock == 1
MaxEntryLen == 2
MaxReads == 4

(* Program constants *)

DefaultChunkSize == 500
DefaultOverlap == 50
ScrollLimit == 1000
IngestChunkSize == 500
IngestOverlap == 50
TopK == 3
ExcerptLength == 100

----------------------------------------------------------------------------
(* Characters and JavaScript string primitives *)

(* The characters String.prototype.trim removes and \s matches, as far as a *)
(* string of this module can hold them: after the five escapes come the     *)
(* vertical tab U+000B, the no-break space U+00A0, the Ogham space mark     *)
(* U+1680 and the byte order mark U+FEFF, each written as the character     *)
(* itself.  U+2000 to U+200A, U+2028, U+2029, U+202F, U+205F and U+3000 are *)
(* whitespace in the code too, and no string of a module can hold them.     *)
WhiteSpace == {" ", "\n", "\t", "\r", "\f", "", " ", " ", "﻿"}
Terminators == {".", "!", "?"}

Alphabet == {"a", "b", " ", "."}

Min2(a, b) == IF a <= b THEN a ELSE b
Max2(a, b) == IF a >= b THEN a ELSE b

(* String.prototype.trim *)
Trim(s) ==
    IF \A i \in 1..Len(s) : s[i] \in WhiteSpace
    THEN <<>>
    ELSE LET first == CHOOSE i \in 1..Len(s) :
                          /\ s[i] \notin WhiteSpace
                          /\ \A j \in 1..(i - 1) : s[j] \in WhiteSpace
             last == CHOOSE i \in 1..Len(s) :
                         /\ s[i] \notin WhiteSpace
                         /\ \A j \in (i + 1)..Len(s) : s[j] \in WhiteSpace
         IN  SubSeq(s, first, last)

(* Index of the first character at or after i that is in seps (want = TRUE)  *)
(* or not in seps (want = FALSE), or Len(s) + 1 when there is none.          *)
FirstFrom(s, i, seps, want) ==
    IF \A j \in i..Len(s) : (s[j] \in seps) # want
    THEN Len(s) + 1
    ELSE CHOOSE j \in i..Len(s) :
             /\ (s[j] \in seps) = want
             /\ \A k \in i..(j - 1) : (s[k] \in seps) # want

(* String.prototype.split on a separator: each maximal run of separator    *)
(* characters (runs = TRUE, a regular expression [..]+) or each single     *)
(* separator character (runs = FALSE) ends a piece; empty pieces are kept. *)
RECURSIVE SplitFrom(_, _, _, _)
SplitFrom(s, i, seps, runs) ==
    LET j == FirstFrom(s, i, seps, TRUE)
    IN  IF j > Len(s)
        THEN <<SubSeq(s, i, Len(s))>>
        ELSE <<SubSeq(s, i, j - 1)>>
             \o SplitFrom(s, IF runs THEN FirstFrom(s, j, seps, FALSE) ELSE j + 1,
                          seps, runs)

Split(s, seps, runs) == SplitFrom(s, 1, seps, runs)

(* Array.prototype.join(' ') *)
RECURSIVE Join(_)
Join(ws) ==
    IF Len(ws) = 0 THEN <<>>
    ELSE IF Len(ws) = 1 THEN ws[1]
    ELSE ws[1] \o <<" ">> \o Join(Tail(ws))

(* Array.prototype.filter *)
RECURSIVE NonEmpty(_)
NonEmpty(ss) ==
    IF Len(ss) = 0 THEN <<>>
    ELSE IF Len(ss[1]) > 0 THEN <<ss[1]>> \o NonEmpty(Tail(ss))
    ELSE NonEmpty(Tail(ss))

(* Array.prototype.slice(start): a negative start counts from the end, and *)
(* -0 is 0, so slice(-0) is the whole array.                               *)
Slice(ws, start) ==
    LET from == IF start < 0 THEN Max2(Len(ws) + start, 0) ELSE Min2(start, Len(ws))
    IN  SubSeq(ws, from + 1, Len(ws))

(* Truncation toward zero of n / 10 (ToIntegerOrInfinity of the quotient). *)
TruncDiv10(n) == IF n >= 0 THEN n \div 10 ELSE -((-n) \div 10)

----------------------------------------------------------------------------
(* TextChunkerService *)

splitIntoSentences(text) ==
    LET pieces == Split(text, Terminators, TRUE)
    IN  NonEmpty([i \in 1..Len(pieces) |-> Trim(pieces[i])])

(* Number of words getOverlapText keeps: min(floor(words * 0.3),           *)
(* overlapSize / 10), truncated toward zero by slice.                      *)
overlapWords(text, overlapSize) ==
    LET words == Split(text, {" "}, FALSE)
        byWords == (Len(words) * 3) \div 10
    IN  IF overlapSize >= 0
        THEN Min2(byWords, TruncDiv10(overlapSize))
        ELSE TruncDiv10(overlapSize)

getOverlapText(text, overlapSize) ==
    LET words == Split(text, {" "}, FALSE)
    IN  Join(Slice(words, -overlapWords(text, overlapSize)))

(* Mutant of createChunk: endChar is the offset of the last character. *)
createChunkInclusiveEnd(content, index, startChar, source, now) ==
    LET trimmedContent == Trim(content)
    IN  [id |-> <<index, now>>,
         content |-> trimmedContent,
         metadata |-> [index |-> index,
                       startChar |-> startChar,
                       endChar |-> startChar + Len(trimmedContent) - 1,
                       wordCount |-> Len(Split(trimmedContent, WhiteSpace, TRUE)),
                       source |-> source]]

createChunk(content, index, startChar, source, now) ==
    LET trimmedContent == Trim(content)
    IN  [id |-> <<index, now>>,
         content |-> trimmedContent,
         metadata |-> [index |-> index,
                       startChar |-> startChar,
                       endChar |-> startChar + Len(trimmedContent),
                       wordCount |-> Len(Split(trimmedContent, WhiteSpace, TRUE)),
                       source |-> source]]

(* Mutant of proposedChunk: the separating space is forgotten. *)
proposedChunkNoSeparator(currentChunk, sentence) == currentChunk \o sentence

(* chunk, line 23: the buffer with the next sentence appended. *)
proposedChunk(currentChunk, sentence) ==
    currentChunk \o (IF Len(currentChunk) > 0 THEN <<" ">> ELSE <<>>) \o sentence

(* chunk, line 25: the test that closes the current passage. *)
closesChunk(proposed, currentChunk, chunkSize) ==
    Len(proposed) > chunkSize /\ Len(currentChunk) > 0

(* chunk, line 31: the buffer that follows a closed passage. *)
seedChunk(overlapText, sentence) ==
    overlapText \o (IF Len(overlapText) > 0 THEN <<" ">> ELSE <<>>) \o sentence

(* Mutant of nextStartChar: the sentence and its separator are not taken   *)
(* off again.                                                              *)
nextStartCharAdvancing(startChar, currentChunk, overlapText, sentence) ==
    startChar + Len(currentChunk) - Len(overlapText)

(* chunk, lines 32-37: the start offset of the passage after a closed one. *)
nextStartChar(startChar, currentChunk, overlapText, sentence) ==
    startChar + Len(currentChunk) - Len(overlapText) - Len(sentence) - 1

(* Mutant of emitTrailing: the trailing buffer is not emitted. *)
emitTrailingDropped(chunks, currentChunk, currentIndex, startChar, env) == chunks

(* chunk, lines 44-48: the trailing buffer becomes the last passage. *)
emitTrailing(chunks, currentChunk, currentIndex, startChar, env) ==
    IF Len(Trim(currentChunk)) > 0
    THEN Append(chunks, createChunk(currentChunk, currentIndex, startChar,
                                    env.source, env.nows[currentIndex + 1]))
    ELSE chunks

(* The for loop of chunk over the sentences from position i on; st holds  *)
(* the loop's variables and env the arguments of chunk and the readings of *)
(* the clock: createChunk reads Date.now() once for each passage, so the   *)
(* passage of index k carries the k-th reading, env.nows[k + 1].           *)
RECURSIVE chunkLoop(_, _, _, _)
chunkLoop(sentences, i, st, env) ==
    IF i > Len(sentences)
    THEN emitTrailing(st.chunks, st.currentChunk, st.currentIndex, st.startChar, env)
    ELSE LET sentence == sentences[i]
             proposed == proposedChunk(st.currentChunk, sentence)
         IN  IF closesChunk(proposed, st.currentChunk, env.chunkSize)
             THEN LET overlapText == getOverlapText(st.currentChunk, env.overlap)
                      nextChunk == seedChunk(overlapText, sentence)
                      closed == createChunk(st.currentChunk, st.currentIndex,
                                            st.startChar, env.source,
                                            env.nows[st.currentIndex + 1])
                  IN  chunkLoop(sentences, i + 1,
                                [chunks |-> Append(st.chunks, closed),
                                 currentChunk |-> nextChunk,
                                 startChar |-> nextStartChar(st.startChar, nextChunk,
                                                             overlapText, sentence),
                                 currentIndex |-> st.currentIndex + 1],
                                env)
             ELSE chunkLoop(sentences, i + 1,
                            [st EXCEPT !.currentChunk = proposed], env)

chunk(text, chunkSize, overlap, source, nows) ==
    chunkLoop(splitIntoSentences(text), 1,
              [chunks |-> <<>>, currentChunk |-> <<>>, currentIndex |-> 0,
               startChar |-> 0],
              [chunkSize |-> chunkSize, overlap |-> overlap, source |-> source,
               nows |-> nows])

----------------------------------------------------------------------------
(* The chunk route (Chunk.handleChunk) *)

AllTexts == UNION {[1..n -> Alphabet] : n \in 0..MaxLen}

(* The text of the specification's scenario, "A. B. C." *)
ScenarioText == <<"a", ".", " ", "b", ".", " ", "c", ".">>

(* "a b c d. e. f": the first sentence has four words. *)
FourWordText ==
    <<"a", " ", "b", " ", "c", " ", "d", ".", " ", "e", ".", " ", "f">>

(* "a b c d e f g. h": the first sentence has seven words. *)
SevenWordText ==
    <<"a", " ", "b", " ", "c", " ", "d", " ", "e", " ", "f", " ", "g", ".",
      " ", "h">>

Texts == AllTexts \cup {ScenarioText, FourWordText, SevenWordText}

(* body.text: absent, a value that is not a string, or a string. *)
TextInputs ==
    {[kind |-> "missing", val |-> <<>>], [kind |-> "other", val |-> <<>>]}
    \cup {[kind |-> "string", val |-> t] : t \in Texts}

ChunkSizes == (-1..MaxChunkSize) \cup {DefaultChunkSize}
Overlaps == {0, 10, DefaultOverlap}

(* The value undefined, which no string equals. *)
Undefined == <<"<undefined>">>

(* A body that is null ("null") or is not JSON ("invalid"). *)
BrokenBody(json) ==
    [json |-> json, text |-> [kind |-> "missing", val |-> <<>>],
     chunkSize |-> DefaultChunkSize, overlap |-> DefaultOverlap,
     source |-> Undefined]

(* The request body: json tells whether c.req.json() yields an object,     *)
(* yields null, or rejects because the body is not JSON. An absent         *)
(* chunkSize or overlap is its default; body.source is absent or, with the *)
(* longer texts, the name "s".                                             *)
ChunkBodies ==
    {body \in [json : {"object"}, text : TextInputs, chunkSize : ChunkSizes,
               overlap : Overlaps, source : {Undefined, <<"s">>}] :
        body.source = Undefined
        \/ body.text.val \in {ScenarioText, FourWordText, SevenWordText}}
    \cup {BrokenBody("null"), BrokenBody("invalid")}

(* The readings of the clock one request may make: the clock does not go   *)
(* back, and may advance between any two readings.                         *)
Readings(from) ==
    {nows \in [1..MaxReads -> from..MaxClock] :
        \A i \in 1..(MaxReads - 1) : nows[i] <= nows[i + 1]}

(* A response without data: an error, or none yet. *)
ChunkError(status, error) ==
    [status |-> status, error |-> error, chunks |-> <<>>,
     metadata |-> [totalChunks |-> 0, originalLength |-> 0, chunkSize |-> 0,
                   overlap |-> 0, processedAt |-> 0]]

NoResp == ChunkError(0, "")

(* handleChunk: the response to body when the clock is read as nows, once  *)
(* by each createChunk and then once for processedAt.                      *)
handleChunkResponse(body, nows) ==
    IF body.json # "object"
    THEN ChunkError(500, "Failed to process text chunking")
    ELSE IF body.text.kind # "string" \/ Len(body.text.val) = 0
    THEN ChunkError(400, "Text is required and must be a string")
    ELSE IF Len(Trim(body.text.val)) = 0
    THEN ChunkError(400, "Text cannot be empty")
    ELSE LET chunks == chunk(body.text.val, body.chunkSize, body.overlap,
                             body.source, nows)
         IN  [status |-> 200, error |-> "", chunks |-> chunks,
              metadata |-> [totalChunks |-> Len(chunks),
                            originalLength |-> Len(body.text.val),
                            chunkSize |-> body.chunkSize,
                            overlap |-> body.overlap,
                            processedAt |-> nows[Len(chunks) + 1]]]

HandleChunk ==
    /\ chunkResp = NoResp
    /\ \E nows \in Readings(clock) :
           /\ chunkResp' = handleChunkResponse(chunkReq, nows)
           /\ clock' = IF chunkResp'.status = 200
                       THEN chunkResp'.metadata.processedAt
                       ELSE clock
    /\ UNCHANGED <<chunkReq, storeVars, simVars, reqs>>

(* The Qdrant store when no getStats call is between its two requests. *)
NoStats == [pending |-> FALSE, count |-> 0]

(* The chunk route resolves only the chunker: the store is left as         *)
(* constructed, in memory and empty.                                       *)
ChunkInit ==
    /\ chunkReq \in ChunkBodies
    /\ chunkResp = NoResp
    /\ backend = "memory"
    /\ arrays = <<<<>>>>
    /\ chunksRef = 1
    /\ qExists = FALSE
    /\ qPoints = <<>>
    /\ qInit = [k \in 0..MaxClears |-> "none"]
    /\ qStats = NoStats
    /\ storeOut = [op |-> "none", arg |-> <<>>, ok |-> TRUE, result |-> <<>>]
    /\ simIn = <<>>
    /\ simOut = [op |-> "none", arg |-> <<>>, ok |-> TRUE, result |-> <<>>]
    /\ reqs = <<>>
    /\ clock = 0

ChunkNext == HandleChunk

SpecChunk == ChunkInit /\ [][ChunkNext]_vars

----------------------------------------------------------------------------
(* VectorStoreService, in memory: this.chunks is an array object and        *)
(* getAllChunks hands out that object itself.                              *)

(* A source is a string, that is a sequence of characters, or Undefined. *)

(* Boolean(source) *)
Truthy(source) == source \notin {Undefined, <<>>}

(* [...new Set(xs)]: the distinct values in order of first occurrence. *)
Distinct(xs) ==
    LET firsts == {i \in 1..Len(xs) : \A j \in 1..(i - 1) : xs[j] # xs[i]}
        nth(k) == CHOOSE i \in firsts : Cardinality({j \in firsts : j < i}) = k - 1
    IN  [k \in 1..Cardinality(firsts) |-> xs[nth(k)]]

IsTruthySource(source) == Truthy(source)

(* Mutant of memAddChunks: the passages of a source that is ingested again *)
(* are replaced.                                                           *)
memAddChunksReplacingSource(arr, chunks) ==
    SelectSeq(arr, LAMBDA c : \A k \in 1..Len(chunks) :
                                 chunks[k].metadata.source # c.metadata.source)
        \o chunks

(* Mutant of memAddChunks: only the first passage is pushed. *)
memAddChunksFirstOnly(arr, chunks) == arr \o SubSeq(chunks, 1, 1)

(* addChunks: this.chunks.push(...chunks) *)
memAddChunks(arr, chunks) == arr \o chunks

(* getChunksBySource *)
memGetChunksBySource(arr, source) ==
    SelectSeq(arr, LAMBDA c : c.metadata.source = source)

(* getStats: the body shared by both stores, over the chunks it reads and  *)
(* the count it reports.                                                   *)
statsOf(chunks, count) ==
    [totalChunks |-> count,
     sources |-> Distinct(SelectSeq([i \in 1..Len(chunks) |->
                                        chunks[i].metadata.source],
                                    IsTruthySource))]

memGetStats(arr) == statsOf(arr, Len(arr))

----------------------------------------------------------------------------
(* VectorStoreService over Qdrant: the collection is a set of points keyed *)
(* by id; upsert overwrites the point of an id, scroll returns at most     *)
(* limit points in id order.                                               *)

IdLess(a, b) == a[2] < b[2] \/ (a[2] = b[2] /\ a[1] < b[1])

toPoint(c) ==
    [id |-> c.id, vector |-> c.embedding,
     payload |-> [content |-> c.content, metadata |-> c.metadata]]

toChunk(pt) ==
    [id |-> pt.id, content |-> pt.payload.content, embedding |-> pt.vector,
     metadata |-> pt.payload.metadata]

upsertOne(points, pt) ==
    IF \E i \in 1..Len(points) : points[i].id = pt.id
    THEN [i \in 1..Len(points) |-> IF points[i].id = pt.id THEN pt ELSE points[i]]
    ELSE LET k == Cardinality({i \in 1..Len(points) : IdLess(points[i].id, pt.id)})
         IN  SubSeq(points, 1, k) \o <<pt>> \o SubSeq(points, k + 1, Len(points))

(* The vector size the collection is created with; it stands for the      *)
(* program's 1536 at the scale of the model's vectors.                     *)
VectorSize == 2

(* Qdrant refuses an upsert that carries a vector of another size. *)
qAccepts(chunks) ==
    \A i \in 1..Len(chunks) : Len(chunks[i].embedding) = VectorSize

(* client.upsert(collection, {wait: true, points}) *)
RECURSIVE qUpsert(_, _)
qUpsert(points, chunks) ==
    IF Len(chunks) = 0 THEN points
    ELSE qUpsert(upsertOne(points, toPoint(chunks[1])), Tail(chunks))

(* client.scroll(collection, {limit}) *)
qScroll(points, limit) == SubSeq(points, 1, Min2(limit, Len(points)))

(* Mutant of qGetAllChunks: the scroll does not ask for the vectors. *)
qGetAllChunksNoVector(points) ==
    LET page == qScroll(points, ScrollLimit)
    IN  [i \in 1..Len(page) |-> [toChunk(page[i]) EXCEPT !.embedding = <<>>]]

qGetAllChunks(points) ==
    LET page == qScroll(points, ScrollLimit)
    IN  [i \in 1..Len(page) |-> toChunk(page[i])]

qGetChunksBySource(points, source) ==
    LET page == qScroll(SelectSeq(points,
                                  LAMBDA pt : pt.payload.metadata.source = source),
                        ScrollLimit)
    IN  [i \in 1..Len(page) |-> toChunk(page[i])]

(* getCollection: info.points_count *)
pointsCount(points) == Len(points)

(* getStats: the points_count getCollection answered and the sources of    *)
(* the scroll page that was answered after it.                             *)
qGetStats(count, points) == statsOf(qGetAllChunks(points), count)

----------------------------------------------------------------------------
(* The store's interface called directly *)

(* The sources "doc1.txt", "doc2.md" and "doc3.txt" *)
Doc1Txt == <<"d", "o", "c", "1", ".", "t", "x", "t">>
Doc2Md == <<"d", "o", "c", "2", ".", "m", "d">>
Doc3Txt == <<"d", "o", "c", "3", ".", "t", "x", "t">>

embeddedChunk(id, content, embedding, source) ==
    [id |-> id, content |-> content, embedding |-> embedding,
     metadata |-> [index |-> id[1], startChar |-> 0, endChar |-> Len(content),
                   wordCount |-> 1, source |-> source]]

StorePassages ==
    {embeddedChunk(<<0, 0>>, <<"a">>, <<1, 0>>, Doc1Txt),
     embeddedChunk(<<0, 0>>, <<"b">>, <<0, 1>>, Doc2Md),
     embeddedChunk(<<0, 1>>, <<"a">>, <<1, 0>>, Doc1Txt),
     embeddedChunk(<<1, 1>>, <<"b">>, <<0, 1>>, Doc2Md)}

StoreSources == {Doc1Txt, Doc2Md, Doc3Txt}

Batches == UNION {[1..n -> StorePassages] : n \in 1..MaxStore}

(* A collection left by earlier runs that fills one scroll page: the       *)
(* passages 1..ScrollLimit of one document.                                *)
FullPage ==
    [i \in 1..ScrollLimit |->
        toPoint(embeddedChunk(<<i, 0>>, <<"a">>, <<1, 0>>, Doc3Txt))]

InitIds == 0..MaxClears

NoCall == [op |-> "none", arg |-> <<>>, ok |-> TRUE, result |-> <<>>]

Returned(op, arg, result) == [op |-> op, arg |-> arg, ok |-> TRUE, result |-> result]
Threw(op, arg) == [op |-> op, arg |-> arg, ok |-> FALSE, result |-> <<>>]

(* Room for n more passages within the model's bound. *)
HasRoom(len, n) ==
    len + n <= (IF len >= ScrollLimit THEN ScrollLimit ELSE 0) + MaxStore

memVars == <<arrays, chunksRef>>
qVars == <<qExists, qPoints, qInit, qStats>>

MemAddChunks(batch) ==
    /\ backend = "memory"
    /\ HasRoom(Len(arrays[chunksRef]), Len(batch))
    /\ arrays' = [arrays EXCEPT ![chunksRef] = memAddChunks(@, batch)]
    /\ storeOut' = Returned("addChunks", batch, <<>>)
    /\ UNCHANGED <<chunkVars, simVars, ragVars, backend, chunksRef, qVars>>

MemGetAllChunks ==
    /\ backend = "memory"
    /\ storeOut' = Returned("getAllChunks", <<>>, arrays[chunksRef])
    /\ UNCHANGED <<chunkVars, simVars, ragVars, backend, memVars, qVars>>

MemGetChunksBySource(source) ==
    /\ backend = "memory"
    /\ storeOut' = Returned("getChunksBySource", source,
                            memGetChunksBySource(arrays[chunksRef], source))
    /\ UNCHANGED <<chunkVars, simVars, ragVars, backend, memVars, qVars>>

MemClearAll ==
    /\ backend = "memory"
    /\ Len(arrays) <= MaxClears
    /\ arrays' = Append(arrays, <<>>)
    /\ chunksRef' = Len(arrays) + 1
    /\ storeOut' = Returned("clearAll", <<>>, <<>>)
    /\ UNCHANGED <<chunkVars, simVars, ragVars, backend, qVars>>

MemGetStats ==
    /\ backend = "memory"
    /\ storeOut' = Returned("getStats", <<>>, memGetStats(arrays[chunksRef]))
    /\ UNCHANGED <<chunkVars, simVars, ragVars, backend, memVars, qVars>>

(* An initializeCollection call has ended. The constructor (k = 0) does    *)
(* not wait for it; clearAll awaits it and returns.                        *)
initialized(k) ==
    IF k = 0 THEN storeOut ELSE Returned("clearAll", <<>>, <<>>)

(* initializeCollection, first request: getCollections. A failure is       *)
(* caught and logged.                                                      *)
QInitList(k, ok) ==
    /\ backend = "qdrant"
    /\ qInit[k] = "list"
    /\ qInit' = [qInit EXCEPT ![k] = IF ok /\ ~qExists THEN "create" ELSE "done"]
    /\ storeOut' = IF qInit'[k] = "done" THEN initialized(k) ELSE storeOut
    /\ UNCHANGED <<chunkVars, simVars, ragVars, backend, memVars, qExists, qPoints, qStats>>

(* initializeCollection, second request: createCollection. *)
QInitCreate(k, ok) ==
    /\ backend = "qdrant"
    /\ qInit[k] = "create"
    /\ qInit' = [qInit EXCEPT ![k] = "done"]
    /\ IF ok /\ ~qExists
       THEN qExists' = TRUE /\ qPoints' = <<>>
       ELSE UNCHANGED <<qExists, qPoints>>
    /\ storeOut' = initialized(k)
    /\ UNCHANGED <<chunkVars, simVars, ragVars, backend, memVars, qStats>>

QAddChunks(batch, ok) ==
    /\ backend = "qdrant"
    /\ HasRoom(Len(qPoints), Len(batch))
    /\ IF ok /\ qExists /\ qAccepts(batch)
       THEN /\ qPoints' = qUpsert(qPoints, batch)
            /\ storeOut' = Returned("addChunks", batch, <<>>)
       ELSE /\ UNCHANGED qPoints
            /\ storeOut' = Threw("addChunks", batch)
    /\ UNCHANGED <<chunkVars, simVars, ragVars, backend, memVars, qExists, qInit, qStats>>

QGetAllChunks(ok) ==
    /\ backend = "qdrant"
    /\ storeOut' = IF ok /\ qExists
                   THEN Returned("getAllChunks", <<>>, qGetAllChunks(qPoints))
                   ELSE Threw("getAllChunks", <<>>)
    /\ UNCHANGED <<chunkVars, simVars, ragVars, backend, memVars, qVars>>

QGetChunksBySource(source, ok) ==
    /\ backend = "qdrant"
    /\ storeOut' = IF ok /\ qExists
                   THEN Returned("getChunksBySource", source,
                                 qGetChunksBySource(qPoints, source))
                   ELSE Threw("getChunksBySource", source)
    /\ UNCHANGED <<chunkVars, simVars, ragVars, backend, memVars, qVars>>

(* getStats, first request: getCollection. When it is answered the scroll *)
(* is sent; when it fails getStats throws and sends nothing more.          *)
QGetStats(ok) ==
    /\ backend = "qdrant"
    /\ ~qStats.pending
    /\ IF ok /\ qExists
       THEN /\ qStats' = [pending |-> TRUE, count |-> pointsCount(qPoints)]
            /\ UNCHANGED storeOut
       ELSE /\ UNCHANGED qStats
            /\ storeOut' = Threw("getStats", <<>>)
    /\ UNCHANGED <<chunkVars, simVars, ragVars, backend, memVars, qExists, qPoints, qInit>>

(* getStats, second request: the scroll. *)
QGetStatsScroll(ok) ==
    /\ backend = "qdrant"
    /\ qStats.pending
    /\ qStats' = NoStats
    /\ storeOut' = IF ok /\ qExists
                   THEN Returned("getStats", <<>>, qGetStats(qStats.count, qPoints))
                   ELSE Threw("getStats", <<>>)
    /\ UNCHANGED <<chunkVars, simVars, ragVars, backend, memVars, qExists, qPoints, qInit>>

(* clearAll: deleteCollection, then initializeCollection is started and   *)
(* awaited.                                                                *)
QClearAll(k, ok) ==
    /\ backend = "qdrant"
    /\ k # 0
    /\ qInit[k] = "none"
    /\ IF ok /\ qExists
       THEN /\ qExists' = FALSE
            /\ qPoints' = <<>>
            /\ qInit' = [qInit EXCEPT ![k] = "list"]
            /\ storeOut' = Returned("deleteCollection", <<>>, <<>>)
       ELSE /\ UNCHANGED <<qExists, qPoints, qInit>>
            /\ storeOut' = Threw("clearAll", <<>>)
    /\ UNCHANGED <<chunkVars, simVars, ragVars, backend, memVars, qStats>>

StoreInit ==
    /\ backend \in {"memory", "qdrant"}
    /\ arrays = <<<<>>>>
    /\ chunksRef = 1
    /\ qExists \in (IF backend = "qdrant" THEN BOOLEAN ELSE {FALSE})
    /\ qPoints \in (IF qExists THEN {<<>>, FullPage} ELSE {<<>>})
    /\ qInit = [k \in InitIds |->
                   IF backend = "qdrant" /\ k = 0 THEN "list" ELSE "none"]
    /\ qStats = NoStats
    /\ storeOut = NoCall
    /\ chunkReq = <<>>
    /\ chunkResp = NoResp
    /\ simIn = <<>>
    /\ simOut = NoCall
    /\ reqs = <<>>
    /\ clock = 0

StoreNext ==
    \/ \E batch \in Batches : MemAddChunks(batch)
    \/ MemGetAllChunks
    \/ \E source \in StoreSources : MemGetChunksBySource(source)
    \/ MemClearAll
    \/ MemGetStats
    \/ \E k \in InitIds, ok \in BOOLEAN : QInitList(k, ok)
    \/ \E k \in InitIds, ok \in BOOLEAN : QInitCreate(k, ok)
    \/ \E batch \in Batches, ok \in BOOLEAN : QAddChunks(batch, ok)
    \/ \E ok \in BOOLEAN : QGetAllChunks(ok)
    \/ \E source \in StoreSources, ok \in BOOLEAN : QGetChunksBySource(source, ok)
    \/ \E ok \in BOOLEAN : QGetStats(ok)
    \/ \E ok \in BOOLEAN : QGetStatsScroll(ok)
    \/ \E k \in InitIds, ok \in BOOLEAN : QClearAll(k, ok)

SpecStore == StoreInit /\ [][StoreNext]_vars

----------------------------------------------------------------------------
(* EmbeddingService: cosine similarity and ranking.                        *)
(* Vectors have integer components and an integer magnitude, so that every *)
(* score is the correctly rounded quotient of two integers and scores      *)
(* compare as those quotients do. A score is [nan, num, den], den > 0.     *)

Vectors == {<<1, 0>>, <<0, 1>>, <<-1, 0>>, <<3, 4>>, <<0, 0>>}

RECURSIVE SumTo(_, _)
SumTo(f, n) == IF n = 0 THEN 0 ELSE f[n] + SumTo(f, n - 1)

(* Math.sqrt of a perfect square *)
Sqrt(n) == CHOOSE k \in 0..n : k * k = n

NaN == [nan |-> TRUE, num |-> 0, den |-> 1]

(* cosineSimilarity: b[i] is undefined past the end of b, which makes the  *)
(* dot product NaN; 0 / 0 is NaN.                                          *)
cosineSimilarity(a, b) ==
    LET magnitudeA == Sqrt(SumTo([i \in 1..Len(a) |-> a[i] * a[i]], Len(a)))
        magnitudeB == Sqrt(SumTo([i \in 1..Len(b) |-> b[i] * b[i]], Len(b)))
    IN  IF Len(b) < Len(a) \/ magnitudeA * magnitudeB = 0
        THEN NaN
        ELSE [nan |-> FALSE,
              num |-> SumTo([i \in 1..Len(a) |-> a[i] * b[i]], Len(a)),
              den |-> magnitudeA * magnitudeB]

(* Sign of x - y for two scores that are numbers. *)
ScoreDiff(x, y) ==
    LET d == x.num * y.den - y.num * x.den
    IN  IF d > 0 THEN 1 ELSE IF d < 0 THEN -1 ELSE 0

(* Mutant of compareFn: a.similarity - b.similarity, an ascending sort. *)
compareFnAscending(a, b) ==
    IF a.similarity.nan \/ b.similarity.nan THEN 0
    ELSE ScoreDiff(a.similarity, b.similarity)

(* The comparator (a, b) => b.similarity - a.similarity as the sort calls  *)
(* it: a NaN result counts as 0.                                           *)
compareFn(a, b) ==
    IF a.similarity.nan \/ b.similarity.nan THEN 0
    ELSE ScoreDiff(b.similarity, a.similarity)

(* Array.prototype.sort for fewer than 64 elements: the first run is       *)
(* counted (and reversed when strictly descending), the other elements are *)
(* inserted by binary search.                                              *)
RECURSIVE RunEnd(_, _, _)
RunEnd(xs, idx, descending) ==
    IF idx > Len(xs) THEN idx - 1
    ELSE LET order == compareFn(xs[idx], xs[idx - 1])
         IN  IF (descending /\ order >= 0) \/ (~descending /\ order < 0)
             THEN idx - 1
             ELSE RunEnd(xs, idx + 1, descending)

Reverse(xs) == [i \in 1..Len(xs) |-> xs[Len(xs) + 1 - i]]

RECURSIVE BinarySearch(_, _, _, _)
BinarySearch(xs, pivot, left, right) ==
    IF left >= right THEN left
    ELSE LET mid == left + ((right - left) \div 2)
         IN  IF compareFn(pivot, xs[mid + 1]) < 0
             THEN BinarySearch(xs, pivot, left, mid)
             ELSE BinarySearch(xs, pivot, mid + 1, right)

RECURSIVE BinaryInsertionSort(_, _)
BinaryInsertionSort(xs, start) ==
    IF start >= Len(xs) THEN xs
    ELSE LET pivot == xs[start + 1]
             left == BinarySearch(xs, pivot, 0, start)
         IN  BinaryInsertionSort(SubSeq(xs, 1, left) \o <<pivot>>
                                 \o SubSeq(xs, left + 1, start)
                                 \o SubSeq(xs, start + 2, Len(xs)),
                                 start + 1)

SortBySimilarity(xs) ==
    IF Len(xs) < 2 THEN xs
    ELSE LET descending == compareFn(xs[2], xs[1]) < 0
             run == RunEnd(xs, 3, descending)
             made == IF descending
                     THEN Reverse(SubSeq(xs, 1, run)) \o SubSeq(xs, run + 1, Len(xs))
                     ELSE xs
         IN  BinaryInsertionSort(made, run)

(* Array.prototype.slice(0, end) *)
SliceTo(xs, end) ==
    LET to == IF end < 0 THEN Max2(Len(xs) + end, 0) ELSE Min2(end, Len(xs))
    IN  SubSeq(xs, 1, to)

(* findSimilarChunks after the query's embedding has arrived. *)
rankChunks(queryEmbedding, chunks, limit) ==
    LET similarities ==
            [i \in 1..Len(chunks) |->
                [id |-> chunks[i].id,
                 content |-> chunks[i].content,
                 embedding |-> chunks[i].embedding,
                 metadata |-> chunks[i].metadata,
                 similarity |-> cosineSimilarity(queryEmbedding,
                                                 chunks[i].embedding)]]
    IN  SliceTo(SortBySimilarity(similarities), limit)

----------------------------------------------------------------------------
(* findSimilarChunks called directly *)

(* What the embedding provider does with one createEmbedding call: it    *)
(* answers a vector or the call throws.                                    *)
EmbedFailure == [ok |-> FALSE, vector |-> <<>>]

Embedded(v) == [ok |-> TRUE, vector |-> v]

Embeddings == {Embedded(v) : v \in Vectors} \cup {EmbedFailure}

SimCorpus(vs) ==
    [i \in 1..Len(vs) |-> embeddedChunk(<<i, 0>>, <<"a">>, vs[i], Doc1Txt)]

(* Seven passages that score 0, 0, 0, NaN, 3/5, 1, 3/5 against <<1, 0>>. *)
TieCorpus ==
    SimCorpus(<< <<0, 1>>, <<0, 1>>, <<0, 1>>, <<0, 0>>, <<3, 4>>, <<1, 0>>, <<3, 4>> >>)

SimCorpora ==
    {SimCorpus(vs) : vs \in UNION {[1..n -> Vectors] : n \in 0..MaxCorpus}}
        \cup {TieCorpus}

SimLimits == 0..MaxLimit

(* Mutant of findSimilarChunks: a failed createEmbedding is swallowed and  *)
(* nothing is ranked.                                                      *)
findSimilarChunksSwallowing(embedding, chunks, limit) ==
    IF ~embedding.ok
    THEN Returned("findSimilarChunks", <<>>, <<>>)
    ELSE Returned("findSimilarChunks", embedding.vector,
                  rankChunks(embedding.vector, chunks, limit))

(* findSimilarChunks: awaits createEmbedding(query), then ranks. *)
findSimilarChunks(embedding, chunks, limit) ==
    IF ~embedding.ok
    THEN Threw("findSimilarChunks", <<>>)
    ELSE Returned("findSimilarChunks", embedding.vector,
                  rankChunks(embedding.vector, chunks, limit))

FindSimilarChunks(embedding) ==
    /\ simOut = NoCall
    /\ simOut' = findSimilarChunks(embedding, simIn.chunks, simIn.limit)
    /\ UNCHANGED <<chunkVars, storeVars, simIn, ragVars>>

SimInit ==
    /\ simIn \in [chunks : SimCorpora, limit : SimLimits]
    /\ simOut = NoCall
    /\ chunkReq = <<>>
    /\ chunkResp = NoResp
    /\ backend = "memory"
    /\ arrays = <<<<>>>>
    /\ chunksRef = 1
    /\ qExists = FALSE
    /\ qPoints = <<>>
    /\ qInit = [k \in InitIds |-> "none"]
    /\ qStats = NoStats
    /\ storeOut = NoCall
    /\ reqs = <<>>
    /\ clock = 0

SimNext == \E embedding \in Embeddings : FindSimilarChunks(embedding)

SpecSim == SimInit /\ [][SimNext]_vars

----------------------------------------------------------------------------
(* FileProcessorService.processFile *)

Repeat(c, n) == [i \in 1..n |-> c]

(* String.prototype.toLowerCase, on the letters A to Z *)
toLowerCase(str) ==
    LET UpperCase ==
            <<"A", "B", "C", "D", "E", "F", "G", "H", "I", "J", "K", "L", "M",
              "N", "O", "P", "Q", "R", "S", "T", "U", "V", "W", "X", "Y", "Z">>
        LowerCase ==
            <<"a", "b", "c", "d", "e", "f", "g", "h", "i", "j", "k", "l", "m",
              "n", "o", "p", "q", "r", "s", "t", "u", "v", "w", "x", "y", "z">>
    IN  [i \in 1..Len(str) |->
            IF \E k \in 1..Len(UpperCase) : UpperCase[k] = str[i]
            THEN LowerCase[CHOOSE k \in 1..Len(UpperCase) : UpperCase[k] = str[i]]
            ELSE str[i]]

(* filename.split('.').pop()?.toLowerCase() *)
extensionOf(filename) ==
    LET parts == Split(filename, {"."}, FALSE)
    IN  toLowerCase(parts[Len(parts)])

(* The additionalMetadata of a pdf: pdfData is what pdf-parse returned;   *)
(* orUndefined(value) is value || undefined.                              *)
additionalMetadata(pdfData) ==
    LET orUndefined(value) == IF Truthy(value) THEN value ELSE Undefined
    IN  [pages |-> pdfData.numpages,
         title |-> orUndefined(pdfData.info.Title),
         author |-> orUndefined(pdfData.info.Author),
         creator |-> orUndefined(pdfData.info.Creator),
         subject |-> orUndefined(pdfData.info.Subject),
         keywords |-> orUndefined(pdfData.info.Keywords)]

(* processFile: file.size is buffer.length, file.content the text the      *)
(* buffer decodes to (txt, md) or the text of the pdf; pdfData is what     *)
(* pdf-parse does on a pdf; now is the reading of the clock by new Date(). *)
processFile(file, pdfData, now) ==
    LET extension == extensionOf(file.name)
        isPdf == extension = <<"p", "d", "f">>
        supported == isPdf \/ extension \in {<<"t", "x", "t">>, <<"m", "d">>}
        threw == ~supported \/ (isPdf /\ ~pdfData.ok)
        content == file.content
        metadata == [filename |-> file.name,
                     extension |-> extension,
                     size |-> file.size,
                     lines |-> Len(Split(content, {"\n"}, FALSE)),
                     words |-> Len(NonEmpty(Split(content, WhiteSpace, TRUE))),
                     processedAt |-> now]
    IN  [threw |-> threw,
         content |-> IF threw THEN <<>> ELSE Trim(content),
         metadata |-> IF threw THEN <<>>
                      ELSE IF isPdf THEN metadata @@ additionalMetadata(pdfData)
                      ELSE metadata]

----------------------------------------------------------------------------
(* The uploaded files and the questions *)

ShortDoc == <<"a", " ", "b", ".">>

(* Three sentences, any two of which exceed the ingestion chunk size. *)
LongDoc ==
    Repeat("a", IngestChunkSize \div 2) \o <<".">> \o
    Repeat("b", IngestChunkSize \div 2) \o <<".">> \o
    Repeat("a", IngestChunkSize \div 2)

(* body.file: absent, a text field, or a file. *)
NoFile == [kind |-> "missing", name |-> <<>>, content |-> <<>>, size |-> 0]

TextField == [kind |-> "string", name |-> <<>>, content |-> <<"x">>, size |-> 0]

(* A file: its name, the text it holds and its length in bytes, which for *)
(* a pdf is not the length of its text.                                   *)
File(name, content, size) ==
    [kind |-> "file", name |-> name, content |-> content, size |-> size]

Files ==
    {File(<<"a", ".", "t", "x", "t">>, ShortDoc, Len(ShortDoc)),
     File(<<"b", ".", "m", "d">>, LongDoc, Len(LongDoc)),
     File(<<"c", ".", "T", "X", "T">>, <<".">>, 1),
     File(<<"d", ".", "p", "d", "f">>, ShortDoc, 20),
     File(<<"e">>, ShortDoc, Len(ShortDoc))}

(* What pdf-parse does on a pdf: it throws, or returns the text with the   *)
(* number of pages and the document's info.                                *)
PdfFailure ==
    [ok |-> FALSE, numpages |-> 0,
     info |-> [Title |-> Undefined, Author |-> Undefined, Creator |-> Undefined,
               Subject |-> Undefined, Keywords |-> Undefined]]

PdfParsed ==
    [ok |-> TRUE, numpages |-> 1,
     info |-> [Title |-> <<"T">>, Author |-> <<>>, Creator |-> Undefined,
               Subject |-> Undefined, Keywords |-> Undefined]]

PdfParses == {PdfFailure, PdfParsed}

(* The JSON body of a question: an object whose question is absent, not a  *)
(* string or a string; null; or a body that is not JSON.                   *)
Questions ==
    {[kind |-> "missing", val |-> <<>>],
     [kind |-> "other", val |-> <<>>],
     [kind |-> "string", val |-> <<>>],
     [kind |-> "string", val |-> <<"a", "?">>],
     [kind |-> "null", val |-> <<>>],
     [kind |-> "invalid", val |-> <<>>]}

(* What the embedding provider answers: a vector of one of two dimensions, *)
(* or the call throws.                                                     *)
IngestEmbeddings ==
    {Embedded(<<1, 0>>), Embedded(<<1, 0, 0>>), EmbedFailure}

(* The provider keeps to one dimension. *)
LiveEmbeddings == {Embedded(<<1, 0>>), EmbedFailure}

(* What the completion provider answers: a text, a null content, or the    *)
(* call throws.                                                            *)
Completions == {"answer", "null", "failure"}

(* processDocument, lines 38-43: processFile and chunk for every file and *)
(* every way of reading the clock, once by processFile (nows[1]) and then *)
(* once by each createChunk. The table is computed once (@@ builds it in  *)
(* full); HandleUpload looks up doc and ProcessFileReturn chunks.          *)
Ingested ==
    [file \in Files, pdfData \in PdfParses, nows \in Readings(0) |->
        LET doc == processFile(file, pdfData, nows[1])
        IN  [doc |-> doc,
             chunks |-> IF doc.threw THEN <<>>
                        ELSE chunk(doc.content, IngestChunkSize, IngestOverlap,
                                   file.name, Tail(nows))]] @@ <<>>

----------------------------------------------------------------------------
(* RagService behind the upload and ask routes. A request is a record: op, *)
(* pc (the await it is suspended at, or "done"), its locals, the number of *)
(* calls it made to each collaborator, and its response. Beside them:      *)
(* pdfData is what pdf-parse answered; asked are the texts embedChunks     *)
(* sent to createEmbedding and answered the vectors that came back; before *)
(* is the number of passages in the index when the request arrived, or -1  *)
(* when another request was running then.                                  *)

NoCalls ==
    [decode |-> 0, decodeThrew |-> 0, embed |-> 0, embedThrew |-> 0,
     index |-> 0, scan |-> 0, chat |-> 0]

NoResponse == [status |-> 0, body |-> <<>>]

(* allChunks is the live array of the in-memory store (ref) or the list a  *)
(* scroll returned (val).                                                  *)
NoChunks == [ref |-> 0, val |-> <<>>]

NewRequest(op) ==
    [op |-> op, pc |-> "done", file |-> NoFile, question |-> <<>>,
     pdfData |-> PdfFailure, metadata |-> <<>>, chunks |-> <<>>, i |-> 0,
     asked |-> <<>>, answered |-> <<>>, embeddedChunks |-> <<>>,
     written |-> 0, before |-> -1,
     allChunks |-> NoChunks, seen |-> -1, relevantChunks |-> <<>>,
     calls |-> NoCalls, resp |-> NoResponse]

Sentinel == "Aucun document n'a ete traite. Veuillez d'abord uploader des documents."

Failed(error) == [status |-> 500, body |-> [error |-> error]]

Rejected(error) == [status |-> 400, body |-> [error |-> error]]

Deref(allChunks, heap) ==
    IF allChunks.ref > 0 THEN heap[allChunks.ref] ELSE allChunks.val

(* Mutant of embedChunksStep: a chunk whose embedding fails is skipped. *)
embedChunksStepSkipFailed(embeddedChunks, c, outcome) ==
    [threw |-> FALSE,
     embeddedChunks |->
         IF outcome.ok
         THEN Append(embeddedChunks,
                     [id |-> c.id, content |-> c.content,
                      embedding |-> outcome.vector, metadata |-> c.metadata])
         ELSE embeddedChunks]

(* Mutant of embedChunksStep: the embedded chunk is put at the front of    *)
(* the list.                                                               *)
embedChunksStepPrepending(embeddedChunks, c, outcome) ==
    [threw |-> ~outcome.ok,
     embeddedChunks |->
         IF outcome.ok
         THEN <<[id |-> c.id, content |-> c.content,
                 embedding |-> outcome.vector, metadata |-> c.metadata]>>
                  \o embeddedChunks
         ELSE embeddedChunks]

(* embedChunks, one turn of the loop once createEmbedding has settled. *)
embedChunksStep(embeddedChunks, c, outcome) ==
    [threw |-> ~outcome.ok,
     embeddedChunks |->
         IF outcome.ok
         THEN Append(embeddedChunks,
                     [id |-> c.id, content |-> c.content,
                      embedding |-> outcome.vector, metadata |-> c.metadata])
         ELSE embeddedChunks]

(* processDocument's result in the upload route's response *)
Indexed(req) ==
    [status |-> 200,
     body |-> [success |-> TRUE,
               message |-> "Document processed and indexed",
               data |-> [filename |-> req.file.name,
                         chunks |-> Len(req.chunks),
                         metadata |-> req.metadata]]]

(* Mutant of afterScan: no test for an empty corpus. *)
afterScanNoShortCircuit(req, allChunks, heap) ==
    [req EXCEPT !.allChunks = allChunks,
                !.seen = Len(Deref(allChunks, heap)),
                !.pc = "embedQuery",
                !.calls.embed = @ + 1]

(* askQuestion once getAllChunks has returned: the sentinel answer for an  *)
(* empty corpus, else findSimilarChunks calls createEmbedding(question).   *)
afterScan(req, allChunks, heap) ==
    IF Len(Deref(allChunks, heap)) = 0
    THEN [req EXCEPT !.allChunks = allChunks,
                     !.seen = 0,
                     !.pc = "done",
                     !.resp = [status |-> 200,
                               body |-> [success |-> TRUE,
                                         question |-> req.question,
                                         answer |-> Sentinel,
                                         sources |-> <<>>]]]
    ELSE [req EXCEPT !.allChunks = allChunks,
                     !.seen = Len(Deref(allChunks, heap)),
                     !.pc = "embedQuery",
                     !.calls.embed = @ + 1]

(* chunk.content.substring(0, 100) + '...' *)
excerpt(content) ==
    SubSeq(content, 1, Min2(ExcerptLength, Len(content))) \o <<".", ".", ".">>

sourcesOf(relevantChunks) ==
    [k \in 1..Len(relevantChunks) |->
        [filename |-> relevantChunks[k].metadata.source,
         content |-> excerpt(relevantChunks[k].content),
         similarity |-> relevantChunks[k].similarity]]

(* Mutant of callAddChunks: the promise of addChunks never settles. *)
callAddChunksUnsettled(req) ==
    [req EXCEPT !.calls.index = @ + 1,
                !.pc = "unsettled"]

(* processDocument, line 47: addChunks is called. The in-memory store has  *)
(* pushed when the call returns; the Qdrant store has sent an upsert.      *)
callAddChunks(req) ==
    LET called == [req EXCEPT !.calls.index = @ + 1]
    IN  IF backend = "memory"
        THEN [called EXCEPT !.written = Len(req.embeddedChunks),
                            !.pc = "indexed"]
        ELSE [called EXCEPT !.pc = "upsert"]

pushed(embeddedChunks) ==
    IF backend = "memory"
    THEN [arrays EXCEPT ![chunksRef] = memAddChunks(@, embeddedChunks)]
    ELSE arrays

(* handleUpload from the arrival of the request to the first wait another  *)
(* request can be seen across: the body is parsed and the file is read     *)
(* (nothing of the program changes meanwhile), then processFile is called. *)
(* For a txt or md file it runs to its end and reads the clock once (now)  *)
(* for processedAt; for a pdf it waits for pdf-parse; for any other        *)
(* extension it throws. A text field named file has no arrayBuffer: line   *)
(* 28 throws.                                                              *)
HandleUpload(file, now) ==
    /\ Len(reqs) < MaxReqs
    /\ now \in clock..MaxClock
    /\ LET count == IF backend = "memory" THEN Len(arrays[chunksRef]) ELSE Len(qPoints)
           alone == \A q \in 1..Len(reqs) : reqs[q].pc = "done"
           req == [NewRequest("upload") EXCEPT !.file = file,
                                               !.before = IF alone THEN count ELSE -1]
       IN  IF file.kind = "missing"
           THEN /\ reqs' = Append(reqs, [req EXCEPT !.resp = Rejected("No file provided")])
                /\ UNCHANGED clock
           ELSE IF file.kind = "string"
           THEN /\ reqs' = Append(reqs, [req EXCEPT !.resp = Failed("Failed to process document")])
                /\ UNCHANGED clock
           ELSE IF extensionOf(file.name) = <<"p", "d", "f">>
           THEN /\ reqs' = Append(reqs, [req EXCEPT !.calls.decode = 1,
                                                    !.pc = "decode"])
                /\ UNCHANGED clock
           ELSE LET doc == Ingested[file, req.pdfData, [i \in 1..MaxReads |-> now]].doc
                IN  IF doc.threw
                    THEN /\ reqs' = Append(reqs, [req EXCEPT !.calls.decode = 1,
                                                             !.calls.decodeThrew = 1,
                                                             !.resp = Failed("Failed to process document")])
                         /\ UNCHANGED clock
                    ELSE /\ reqs' = Append(reqs, [req EXCEPT !.calls.decode = 1,
                                                             !.metadata = doc.metadata,
                                                             !.pc = "chunk"])
                         /\ clock' = now
    /\ UNCHANGED <<chunkVars, simVars, storeVars>>

(* processFile on a pdf, lines 19-41 and 50-62: pdf-parse, imported and    *)
(* called with the buffer, answers pdfData or throws; on an answer         *)
(* processFile reads the clock once (now) and returns.                     *)
DecodeReturn(r, pdfData, now) ==
    /\ r \in 1..Len(reqs)
    /\ reqs[r].pc = "decode"
    /\ now \in clock..MaxClock
    /\ LET doc == Ingested[reqs[r].file, pdfData, [i \in 1..MaxReads |-> now]].doc
       IN  IF doc.threw
           THEN /\ reqs' = [reqs EXCEPT ![r] = [@ EXCEPT !.calls.decodeThrew = 1,
                                                         !.pc = "done",
                                                         !.resp = Failed("Failed to process document")]]
                /\ UNCHANGED clock
           ELSE /\ reqs' = [reqs EXCEPT ![r] = [@ EXCEPT !.pdfData = pdfData,
                                                         !.metadata = doc.metadata,
                                                         !.pc = "chunk"]]
                /\ clock' = now
    /\ UNCHANGED <<chunkVars, simVars, storeVars>>

(* processDocument resumes after processFile, lines 38-45: chunk() cuts    *)
(* the content, reading the clock once per passage, and embedChunks is     *)
(* called, which sends the first createEmbedding request or, without       *)
(* passages, returns at once. nows are the readings of this request: the   *)
(* one processFile made, then those of chunk(), none before the clock.     *)
ProcessFileReturn(r, nows) ==
    /\ r \in 1..Len(reqs)
    /\ reqs[r].pc = "chunk"
    /\ nows \in Readings(0)
    /\ nows[1] = reqs[r].metadata.processedAt
    /\ nows[2] >= clock
    /\ LET chunks == Ingested[reqs[r].file, reqs[r].pdfData, nows].chunks
       IN  IF Len(chunks) > 0
           THEN /\ reqs' = [reqs EXCEPT ![r] = [@ EXCEPT !.chunks = chunks,
                                                         !.pc = "embed",
                                                         !.i = 1,
                                                         !.asked = <<chunks[1].content>>,
                                                         !.calls.embed = 1]]
                /\ clock' = nows[1 + Len(chunks)]
           ELSE /\ reqs' = [reqs EXCEPT ![r] = [@ EXCEPT !.pc = "addChunks"]]
                /\ UNCHANGED clock
    /\ UNCHANGED <<chunkVars, simVars, storeVars>>

(* The createEmbedding call of embedChunks settles: the loop goes on to    *)
(* the next passage and sends its content, or embedChunks returns or       *)
(* throws.                                                                 *)
EmbedReturn(r, outcome) ==
    /\ r \in 1..Len(reqs)
    /\ reqs[r].pc = "embed"
    /\ LET req == [reqs[r] EXCEPT
                      !.calls.embedThrew = IF outcome.ok THEN @ ELSE @ + 1,
                      !.answered = IF outcome.ok THEN Append(@, outcome.vector) ELSE @]
           step == embedChunksStep(req.embeddedChunks, req.chunks[req.i], outcome)
       IN  reqs' = [reqs EXCEPT ![r] =
                       IF step.threw
                       THEN [req EXCEPT !.pc = "done",
                                        !.resp = Failed("Failed to process document")]
                       ELSE IF req.i < Len(req.chunks)
                       THEN [req EXCEPT !.embeddedChunks = step.embeddedChunks,
                                        !.i = @ + 1,
                                        !.asked = Append(@, req.chunks[req.i + 1].content),
                                        !.calls.embed = @ + 1]
                       ELSE [req EXCEPT !.embeddedChunks = step.embeddedChunks,
                                        !.pc = "addChunks"]]
    /\ UNCHANGED <<chunkVars, simVars, clock, storeVars>>

(* processDocument resumes after embedChunks and calls addChunks. *)
AddChunks(r) ==
    /\ r \in 1..Len(reqs)
    /\ reqs[r].pc = "addChunks"
    /\ reqs' = [reqs EXCEPT ![r] = callAddChunks(@)]
    /\ arrays' = pushed(reqs[r].embeddedChunks)
    /\ UNCHANGED <<chunkVars, simVars, clock, backend, chunksRef, qVars, storeOut>>

(* processDocument resumes after the in-memory addChunks and returns; the  *)
(* upload route answers.                                                   *)
AddChunksReturn(r) ==
    /\ r \in 1..Len(reqs)
    /\ reqs[r].pc = "indexed"
    /\ reqs' = [reqs EXCEPT ![r] = [@ EXCEPT !.pc = "done",
                                             !.resp = Indexed(reqs[r])]]
    /\ UNCHANGED <<chunkVars, simVars, clock, storeVars>>

(* The upsert request of the Qdrant store's addChunks settles. *)
UpsertReturn(r, ok) ==
    /\ r \in 1..Len(reqs)
    /\ reqs[r].pc = "upsert"
    /\ IF ok /\ qExists /\ qAccepts(reqs[r].embeddedChunks)
       THEN /\ qPoints' = qUpsert(qPoints, reqs[r].embeddedChunks)
            /\ reqs' = [reqs EXCEPT ![r] =
                           [@ EXCEPT !.written = Len(reqs[r].embeddedChunks),
                                     !.pc = "done",
                                     !.resp = Indexed(reqs[r])]]
       ELSE /\ UNCHANGED qPoints
            /\ reqs' = [reqs EXCEPT ![r] =
                           [@ EXCEPT !.pc = "done",
                                     !.resp = Failed("Failed to process document")]]
    /\ UNCHANGED <<chunkVars, simVars, clock, backend, memVars, qExists, qInit, qStats, storeOut>>

(* Mutant of rejectsQuestion: only the type of the question is tested. *)
rejectsQuestionTypeOnly(question) == question.kind # "string"

(* !question || typeof question !== 'string' *)
rejectsQuestion(question) == question.kind # "string" \/ Len(question.val) = 0

(* handleQuestion once c.req.json() has settled, up to the await of        *)
(* getAllChunks: a body that is null or not JSON throws into the catch, a  *)
(* bad question is rejected, else askQuestion calls getAllChunks, which    *)
(* in memory returns this.chunks and with Qdrant sends a scroll.           *)
HandleQuestion(question) ==
    /\ Len(reqs) < MaxReqs
    /\ LET req == [NewRequest("ask") EXCEPT !.question = question]
           scanning == [req EXCEPT !.calls.scan = 1]
       IN  IF question.kind \in {"null", "invalid"}
           THEN reqs' = Append(reqs, [req EXCEPT !.resp =
                            Failed("Failed to process question")])
           ELSE IF rejectsQuestion(question)
           THEN reqs' = Append(reqs, [req EXCEPT !.resp =
                            Rejected("Question is required and must be a string")])
           ELSE IF backend = "memory"
           THEN reqs' = Append(reqs, [scanning EXCEPT
                                         !.allChunks = [ref |-> chunksRef, val |-> <<>>],
                                         !.pc = "scan"])
           ELSE reqs' = Append(reqs, [scanning EXCEPT !.pc = "scroll"])
    /\ UNCHANGED <<chunkVars, simVars, clock, storeVars>>

(* askQuestion resumes after the in-memory getAllChunks: the array it was  *)
(* handed is tested as it is now.                                          *)
GetAllChunksReturn(r) ==
    /\ r \in 1..Len(reqs)
    /\ reqs[r].pc = "scan"
    /\ reqs' = [reqs EXCEPT ![r] = afterScan(@, reqs[r].allChunks, arrays)]
    /\ UNCHANGED <<chunkVars, simVars, clock, storeVars>>

(* The scroll request of the Qdrant store's getAllChunks settles. *)
ScrollReturn(r, ok) ==
    /\ r \in 1..Len(reqs)
    /\ reqs[r].pc = "scroll"
    /\ reqs' = [reqs EXCEPT ![r] =
                   IF ok /\ qExists
                   THEN afterScan(@, [ref |-> 0, val |-> qGetAllChunks(qPoints)],
                                  arrays)
                   ELSE [@ EXCEPT !.pc = "done",
                                  !.resp = Failed("Failed to process question")]]
    /\ UNCHANGED <<chunkVars, simVars, clock, storeVars>>

(* The createEmbedding call of findSimilarChunks settles; the chunks are   *)
(* ranked and the completion request is sent.                              *)
QueryEmbedReturn(r, outcome) ==
    /\ r \in 1..Len(reqs)
    /\ reqs[r].pc = "embedQuery"
    /\ LET found == findSimilarChunks(outcome, Deref(reqs[r].allChunks, arrays), TopK)
           req == [reqs[r] EXCEPT
                      !.calls.embedThrew = IF outcome.ok THEN @ ELSE @ + 1]
       IN  reqs' = [reqs EXCEPT ![r] =
                       IF found.ok
                       THEN [req EXCEPT !.relevantChunks = found.result,
                                        !.pc = "chat",
                                        !.calls.chat = @ + 1]
                       ELSE [req EXCEPT !.pc = "done",
                                        !.resp = Failed("Failed to process question")]]
    /\ UNCHANGED <<chunkVars, simVars, clock, storeVars>>

(* The completion request settles. *)
ChatReturn(r, completion) ==
    /\ r \in 1..Len(reqs)
    /\ reqs[r].pc = "chat"
    /\ reqs' = [reqs EXCEPT ![r] =
                   IF completion = "failure"
                   THEN [@ EXCEPT !.pc = "done",
                                  !.resp = Failed("Failed to process question")]
                   ELSE [@ EXCEPT !.pc = "done",
                                  !.resp = [status |-> 200,
                                            body |-> [success |-> TRUE,
                                                      question |-> reqs[r].question,
                                                      answer |-> completion,
                                                      sources |-> sourcesOf(reqs[r].relevantChunks)]]]]
    /\ UNCHANGED <<chunkVars, simVars, clock, storeVars>>

Init ==
    /\ reqs = <<>>
    /\ clock = 0
    /\ backend \in {"memory", "qdrant"}
    /\ arrays = <<<<>>>>
    /\ chunksRef = 1
    /\ qExists \in (IF backend = "qdrant" THEN BOOLEAN ELSE {FALSE})
    /\ qPoints = <<>>
    /\ qInit = [k \in InitIds |->
                   IF backend = "qdrant" /\ k = 0 THEN "list" ELSE "none"]
    /\ qStats = NoStats
    /\ storeOut = NoCall
    /\ chunkReq = <<>>
    /\ chunkResp = NoResp
    /\ simIn = <<>>
    /\ simOut = NoCall

Next ==
    \/ \E file \in Files \cup {NoFile, TextField}, now \in 0..MaxClock : HandleUpload(file, now)
    \/ \E r \in 1..MaxReqs, pdfData \in PdfParses, now \in 0..MaxClock : DecodeReturn(r, pdfData, now)
    \/ \E r \in 1..MaxReqs, nows \in Readings(0) : ProcessFileReturn(r, nows)
    \/ \E r \in 1..MaxReqs, outcome \in LiveEmbeddings : EmbedReturn(r, outcome)
    \/ \E r \in 1..MaxReqs : AddChunks(r)
    \/ \E r \in 1..MaxReqs : AddChunksReturn(r)
    \/ \E r \in 1..MaxReqs, ok \in BOOLEAN : UpsertReturn(r, ok)
    \/ \E question \in Questions : HandleQuestion(question)
    \/ \E r \in 1..MaxReqs : GetAllChunksReturn(r)
    \/ \E r \in 1..MaxReqs, ok \in BOOLEAN : ScrollReturn(r, ok)
    \/ \E r \in 1..MaxReqs, outcome \in IngestEmbeddings : QueryEmbedReturn(r, outcome)
    \/ \E r \in 1..MaxReqs, completion \in Completions : ChatReturn(r, completion)
    \/ \E k \in InitIds, ok \in BOOLEAN : QInitList(k, ok)
    \/ \E k \in InitIds, ok \in BOOLEAN : QInitCreate(k, ok)

Spec == Init /\ [][Next]_vars

----------------------------------------------------------------------------
(* The two validating entry points side by side: the chunk route and the   *)
(* ask route over an empty corpus.                                         *)

EntryBodies ==
    {body \in ChunkBodies :
        /\ Len(body.text.val) <= MaxEntryLen
        /\ body.chunkSize = DefaultChunkSize
        /\ body.overlap = DefaultOverlap}

EntryInit ==
    /\ chunkReq \in EntryBodies
    /\ chunkResp = NoResp
    /\ reqs = <<>>
    /\ clock = 0
    /\ backend \in {"memory", "qdrant"}
    /\ arrays = <<<<>>>>
    /\ chunksRef = 1
    /\ qExists \in (IF backend = "qdrant" THEN BOOLEAN ELSE {FALSE})
    /\ qPoints = <<>>
    /\ qInit = [k \in InitIds |->
                   IF backend = "qdrant" /\ k = 0 THEN "list" ELSE "none"]
    /\ qStats = NoStats
    /\ storeOut = NoCall
    /\ simIn = <<>>
    /\ simOut = NoCall

EntryNext ==
    \/ HandleChunk
    \/ \E question \in Questions : HandleQuestion(question)
    \/ \E r \in 1..MaxReqs : GetAllChunksReturn(r)
    \/ \E r \in 1..MaxReqs, ok \in BOOLEAN : ScrollReturn(r, ok)

SpecEntry == EntryInit /\ [][EntryNext]_vars

----------------------------------------------------------------------------
(* The upload and ask routes with collaborators that always answer: every  *)
(* request sent to the embedding provider, the index or the completion     *)
(* provider is eventually answered or fails.                               *)

LiveFiles ==
    {file \in Files : extensionOf(file.name) \in {<<"m", "d">>, <<"p", "d", "f">>}}

LiveNext ==
    \/ \E file \in LiveFiles \cup {NoFile, TextField}, now \in 0..MaxClock : HandleUpload(file, now)
    \/ \E r \in 1..MaxReqs, pdfData \in PdfParses, now \in 0..MaxClock : DecodeReturn(r, pdfData, now)
    \/ \E r \in 1..MaxReqs, nows \in Readings(0) : ProcessFileReturn(r, nows)
    \/ \E r \in 1..MaxReqs, outcome \in LiveEmbeddings : EmbedReturn(r, outcome)
    \/ \E r \in 1..MaxReqs : AddChunks(r)
    \/ \E r \in 1..MaxReqs : AddChunksReturn(r)
    \/ \E r \in 1..MaxReqs, ok \in BOOLEAN : UpsertReturn(r, ok)
    \/ \E question \in {q \in Questions : q.kind \in {"string", "null"}} : HandleQuestion(question)
    \/ \E r \in 1..MaxReqs : GetAllChunksReturn(r)
    \/ \E r \in 1..MaxReqs, ok \in BOOLEAN : ScrollReturn(r, ok)
    \/ \E r \in 1..MaxReqs, outcome \in LiveEmbeddings : QueryEmbedReturn(r, outcome)
    \/ \E r \in 1..MaxReqs, completion \in Completions : ChatReturn(r, completion)
    \/ \E k \in InitIds, ok \in BOOLEAN : QInitList(k, ok)
    \/ \E k \in InitIds, ok \in BOOLEAN : QInitCreate(k, ok)

CollaboratorsAnswer ==
    \A r \in 1..MaxReqs :
        /\ WF_vars(\E pdfData \in PdfParses, now \in 0..MaxClock : DecodeReturn(r, pdfData, now))
        /\ WF_vars(\E nows \in Readings(0) : ProcessFileReturn(r, nows))
        /\ WF_vars(\E outcome \in LiveEmbeddings : EmbedReturn(r, outcome))
        /\ WF_vars(AddChunks(r))
        /\ WF_vars(AddChunksReturn(r))
        /\ WF_vars(GetAllChunksReturn(r))
        /\ WF_vars(\E ok \in BOOLEAN : UpsertReturn(r, ok))
        /\ WF_vars(\E ok \in BOOLEAN : ScrollReturn(r, ok))
        /\ WF_vars(\E outcome \in LiveEmbeddings : QueryEmbedReturn(r, outcome))
        /\ WF_vars(\E completion \in Completions : ChatReturn(r, completion))

SpecLive == Init /\ [][LiveNext]_vars /\ CollaboratorsAnswer

----------------------------------------------------------------------------
(* The service over the in-memory store, with the store's clearAll,        *)
(* getStats and getChunksBySource called while uploads and questions are   *)
(* under way. The store is empty or holds the passage of an upload of      *)
(* a.txt that was answered earlier.                                        *)

CorpusFiles == {file \in Files : file.name[1] \in {"a", "b"}}

EarlierFile == CHOOSE file \in Files : file.name = <<"a", ".", "t", "x", "t">>

EarlierCorpus ==
    embedChunksStep(<<>>, Ingested[EarlierFile, PdfParsed, [i \in 1..MaxReads |-> 0]].chunks[1],
                    Embedded(<<0, 1>>)).embeddedChunks

CorpusQuestions == {question \in Questions : ~rejectsQuestion(question)}

CorpusInit ==
    /\ reqs = <<>>
    /\ clock = 0
    /\ backend = "memory"
    /\ arrays \in {<<<<>>>>, <<EarlierCorpus>>}
    /\ chunksRef = 1
    /\ qExists = FALSE
    /\ qPoints = <<>>
    /\ qInit = [k \in InitIds |-> "none"]
    /\ qStats = NoStats
    /\ storeOut = NoCall
    /\ chunkReq = <<>>
    /\ chunkResp = NoResp
    /\ simIn = <<>>
    /\ simOut = NoCall

CorpusNext ==
    \/ \E file \in CorpusFiles, now \in 0..MaxClock : HandleUpload(file, now)
    \/ \E r \in 1..MaxReqs, nows \in Readings(0) : ProcessFileReturn(r, nows)
    \/ \E r \in 1..MaxReqs, outcome \in LiveEmbeddings : EmbedReturn(r, outcome)
    \/ \E r \in 1..MaxReqs : AddChunks(r)
    \/ \E r \in 1..MaxReqs : AddChunksReturn(r)
    \/ \E question \in CorpusQuestions : HandleQuestion(question)
    \/ \E r \in 1..MaxReqs : GetAllChunksReturn(r)
    \/ \E r \in 1..MaxReqs, outcome \in LiveEmbeddings : QueryEmbedReturn(r, outcome)
    \/ \E r \in 1..MaxReqs, completion \in Completions : ChatReturn(r, completion)
    \/ MemClearAll
    \/ MemGetStats
    \/ \E file \in CorpusFiles : MemGetChunksBySource(file.name)

SpecCorpus == CorpusInit /\ [][CorpusNext]_vars

----------------------------------------------------------------------------
(* Ingestion alone, into the in-memory index, with an embedding provider   *)
(* whose vectors are not all of one dimension.                             *)

IngestNext ==
    \/ \E file \in CorpusFiles, now \in 0..MaxClock : HandleUpload(file, now)
    \/ \E r \in 1..MaxReqs, nows \in Readings(0) : ProcessFileReturn(r, nows)
    \/ \E r \in 1..MaxReqs, outcome \in IngestEmbeddings : EmbedReturn(r, outcome)
    \/ \E r \in 1..MaxReqs : AddChunks(r)
    \/ \E r \in 1..MaxReqs : AddChunksReturn(r)

SpecIngest == CorpusInit /\ [][IngestNext]_vars

----------------------------------------------------------------------------
(* Properties of the chunker, checked under SpecChunk *)

IsSubstring(sub, s) ==
    \E i \in 0..(Len(s) - Len(sub)) : SubSeq(s, i + 1, i + Len(sub)) = sub

Handled == chunkResp # NoResp

(* The handler reached the chunker with a chunkSize >= 1. *)
Chunked == Handled /\ chunkResp.status = 200 /\ chunkReq.chunkSize >= 1

(* A string with a non-whitespace character, shorter than chunkSize >= 1. *)
ShortText ==
    /\ Chunked
    /\ Len(chunkReq.text.val) < chunkReq.chunkSize

HasTerminator(t) == \E i \in 1..Len(t) : t[i] \in Terminators

(* C1 as stated: a text with a non-whitespace character and shorter than   *)
(* chunkSize yields exactly one passage whose content is the trimmed text. *)
C1_Original ==
    ShortText =>
        /\ Len(chunkResp.chunks) = 1
        /\ chunkResp.chunks[1].content = Trim(chunkReq.text.val)

(* C1 amended: such a text yields at most one passage; exactly one when it *)
(* has a character that is neither whitespace nor '.', '!', '?', and then   *)
(* the content is the trimmed sentence units joined by single spaces,      *)
(* which is the trimmed text when the text has no '.', '!' or '?'.         *)
C1_ShortTextOnePassage ==
    ShortText =>
        LET t == chunkReq.text.val
            cs == chunkResp.chunks
        IN  /\ Len(cs) <= 1
            /\ (Len(cs) = 1) <=>
                   (\E i \in 1..Len(t) : t[i] \notin (WhiteSpace \cup Terminators))
            /\ Len(cs) = 1 => cs[1].content = Join(splitIntoSentences(t))
            /\ (Len(cs) = 1 /\ ~HasTerminator(t)) => cs[1].content = Trim(t)

(* A short text with two sentences was chunked into one passage. *)
C1_Witness ==
    /\ ShortText
    /\ Len(splitIntoSentences(chunkReq.text.val)) = 2
    /\ Len(chunkResp.chunks) = 1

(* C2: for chunkSize >= 1 and overlap >= 0 the passages are in             *)
(* non-decreasing startChar order and endChar - startChar is the length of *)
(* the trimmed content of each passage.                                    *)
C2_OffsetsMonotoneAndSized ==
    Chunked =>
        LET cs == chunkResp.chunks
        IN  /\ \A i \in 2..Len(cs) :
                   cs[i].metadata.startChar >= cs[i - 1].metadata.startChar
            /\ \A i \in 1..Len(cs) :
                   cs[i].metadata.endChar - cs[i].metadata.startChar
                       = Len(Trim(cs[i].content))

(* Three passages were returned, the second after an overlap of one word.  *)
C2_Witness ==
    /\ Chunked
    /\ chunkReq.text.val = FourWordText
    /\ chunkReq.overlap = 10
    /\ Len(chunkResp.chunks) = 3

(* C3: for chunkSize >= 1 and overlap >= 0 chunk returns, and every        *)
(* non-empty trimmed sentence unit of the text (split on '.', '!', '?')    *)
(* occurs inside the content of at least one returned passage.             *)
C3_NoSentenceDropped ==
    Chunked =>
        LET ss == splitIntoSentences(chunkReq.text.val)
            cs == chunkResp.chunks
        IN  \A k \in 1..Len(ss) :
                \E i \in 1..Len(cs) : IsSubstring(ss[k], cs[i].content)

(* The scenario "A. B. C." with chunkSize 3 and overlap 0 returned passages. *)
C3_Witness ==
    /\ Chunked
    /\ chunkReq.text.val = ScenarioText
    /\ chunkReq.chunkSize = 3
    /\ chunkReq.overlap = 0
    /\ Len(chunkResp.chunks) >= 2

(* C4 as stated: a chunkSize <= 0 is rejected with an error and produces   *)
(* no passages, for every text and overlap.                                *)
C4_NonPositiveChunkSizeRejected ==
    (Handled /\ chunkReq.chunkSize <= 0) =>
        /\ chunkResp.status # 200
        /\ chunkResp.chunks = <<>>

----------------------------------------------------------------------------
(* Properties of the vector store, checked under SpecStore *)

(* The passages the store holds. *)
Corpus ==
    IF backend = "memory" THEN arrays[chunksRef]
    ELSE [i \in 1..Len(qPoints) |-> toChunk(qPoints[i])]

(* What getAllChunks returns in this state. *)
ScanAll ==
    IF backend = "memory" THEN arrays[chunksRef] ELSE qGetAllChunks(qPoints)

AddedOk == storeOut.op = "addChunks" /\ storeOut.ok

SamePassage(c, d) ==
    c.id = d.id /\ c.content = d.content /\ c.embedding = d.embedding

(* C7 as stated: after addChunks, exactly one stored passage carries the    *)
(* id of each added passage, also when that id was stored before.          *)
C7_UpsertIdempotent ==
    AddedOk =>
        \A k \in 1..Len(storeOut.arg) :
            Cardinality({i \in 1..Len(Corpus) : Corpus[i].id = storeOut.arg[k].id}) = 1

(* C8 as stated: after addChunks([p]) succeeds, whatever the corpus held   *)
(* before, getAllChunks returns a passage with p's id, content and vector. *)
C8_Original ==
    (AddedOk /\ Len(storeOut.arg) = 1) =>
        \E i \in 1..Len(ScanAll) : SamePassage(ScanAll[i], storeOut.arg[1])

(* C8 amended: the same, for the in-memory store always and for the Qdrant *)
(* store when the collection then holds at most 1000 points, the one page  *)
(* getAllChunks scrolls.                                                   *)
C8_RoundTripWithinPage ==
    (AddedOk /\ Len(storeOut.arg) = 1
        /\ (backend = "qdrant" => Len(qPoints) <= ScrollLimit)) =>
        \E i \in 1..Len(ScanAll) : SamePassage(ScanAll[i], storeOut.arg[1])

(* A passage was added to a Qdrant collection that held another passage. *)
C8_Witness ==
    /\ AddedOk
    /\ Len(storeOut.arg) = 1
    /\ backend = "qdrant"
    /\ Len(qPoints) = 2
    /\ \E i \in 1..Len(ScanAll) : SamePassage(ScanAll[i], storeOut.arg[1])

(* C9 as stated: getStats reports the number of stored passages and        *)
(* exactly the set of their distinct source identifiers.                   *)
C9_StatsMatchCorpus ==
    (storeOut.op = "getStats" /\ storeOut.ok) =>
        /\ storeOut.result.totalChunks = Len(Corpus)
        /\ {storeOut.result.sources[i] : i \in 1..Len(storeOut.result.sources)}
               = {Corpus[i].metadata.source : i \in 1..Len(Corpus)}

----------------------------------------------------------------------------
(* Properties of the orchestrator, checked under Spec *)

(* C5: an ask request whose getAllChunks returned no passage has ended     *)
(* with status 200, the sentinel answer and no sources, and has made no    *)
(* call to the embedding provider or to the completion provider.           *)
C5_EmptyCorpusSentinel ==
    \A r \in 1..Len(reqs) :
        (reqs[r].op = "ask" /\ reqs[r].seen = 0) =>
            /\ reqs[r].pc = "done"
            /\ reqs[r].resp.status = 200
            /\ reqs[r].resp.body.answer = Sentinel
            /\ reqs[r].resp.body.sources = <<>>
            /\ reqs[r].calls.embed = 0
            /\ reqs[r].calls.chat = 0

(* A question was asked of an empty corpus and answered. *)
C5_Witness ==
    \E r \in 1..Len(reqs) :
        /\ reqs[r].op = "ask"
        /\ reqs[r].seen = 0
        /\ Len(Corpus) = 0
        /\ reqs[r].resp.status = 200

(* C6: after every step, an upload one of whose embedding calls threw has  *)
(* ended with an error, has made no call to addChunks and has written no   *)
(* passage, and the step in which the call threw left the corpus as it     *)
(* was.                                                                    *)
C6_AllOrNothing ==
    [][\A r \in 1..Len(reqs') :
          (reqs'[r].op = "upload" /\ reqs'[r].calls.embedThrew > 0) =>
              /\ reqs'[r].pc = "done"
              /\ reqs'[r].resp.status = 500
              /\ reqs'[r].calls.index = 0
              /\ reqs'[r].written = 0
              /\ (r <= Len(reqs) /\ reqs[r].pc = "embed") => Corpus' = Corpus]_vars

(* The embedding of the second of three passages threw after the first     *)
(* had been embedded.                                                      *)
C6_Witness ==
    \E r \in 1..Len(reqs) :
        /\ reqs[r].op = "upload"
        /\ Len(reqs[r].chunks) = 3
        /\ Len(reqs[r].embeddedChunks) = 1
        /\ reqs[r].calls.embedThrew = 1
        /\ reqs[r].pc = "done"

----------------------------------------------------------------------------
(* Properties of the ranking, checked under SpecSim *)

Ranked == simOut.op = "findSimilarChunks" /\ simOut.ok

(* x >= y on scores; no comparison with NaN holds. *)
ScoreGeq(x, y) == ~x.nan /\ ~y.nan /\ ScoreDiff(x, y) >= 0

(* C10 as stated: for limit >= 1 the result has min(limit, |chunks|)       *)
(* entries and their similarity scores never increase along it.            *)
C10_OrderedAndSized ==
    (Ranked /\ simIn.limit >= 1) =>
        /\ Len(simOut.result) = Min2(simIn.limit, Len(simIn.chunks))
        /\ \A i \in 1..(Len(simOut.result) - 1) :
               ScoreGeq(simOut.result[i].similarity,
                        simOut.result[i + 1].similarity)

ScoreEq(x, y) == ~x.nan /\ ~y.nan /\ ScoreDiff(x, y) = 0

(* The score findSimilarChunks gave to a passage of the supplied corpus. *)
ScoreOf(c) == cosineSimilarity(simOut.arg, c.embedding)

InResult(c) == \E j \in 1..Len(simOut.result) : simOut.result[j].id = c.id

(* C11 as stated: passages of the result with equal scores are in corpus   *)
(* order, and no passage left out of the result has the score of a         *)
(* retained passage that comes later in the corpus.                        *)
C11_StableTieBreak ==
    (Ranked /\ simIn.limit >= 1) =>
        /\ \A i, j \in 1..Len(simOut.result) :
               (i < j /\ ScoreEq(simOut.result[i].similarity,
                                 simOut.result[j].similarity))
                   => simOut.result[i].id[1] < simOut.result[j].id[1]
        /\ \A k \in 1..Len(simIn.chunks), j \in 1..Len(simOut.result) :
               (~InResult(simIn.chunks[k])
                   /\ ScoreEq(ScoreOf(simIn.chunks[k]), simOut.result[j].similarity))
                   => simOut.result[j].id[1] < simIn.chunks[k].id[1]

----------------------------------------------------------------------------
(* Further properties of the orchestrator, checked under Spec *)

(* An ask request that was answered from retrieved passages. *)
Answered(r) ==
    /\ reqs[r].op = "ask"
    /\ reqs[r].pc = "done"
    /\ reqs[r].resp.status = 200
    /\ reqs[r].seen > 0

(* C12 as stated: every attribution's excerpt is the first 100 characters  *)
(* of the retrieved passage's content, the whole content when it is        *)
(* shorter, and so has at most 100 characters.                             *)
C12_ExcerptIsPrefix ==
    \A r \in 1..Len(reqs) :
        Answered(r) =>
            \A k \in 1..Len(reqs[r].resp.body.sources) :
                LET content == reqs[r].relevantChunks[k].content
                    shown == reqs[r].resp.body.sources[k].content
                IN  /\ shown = SubSeq(content, 1, Min2(ExcerptLength, Len(content)))
                    /\ Len(shown) <= ExcerptLength

(* C13 as stated: in every reachable state all vectors of the index have   *)
(* the same dimension. Checked under SpecIngest, whose provider answers    *)
(* vectors of two dimensions.                                              *)
C13_OneDimension ==
    \A i, j \in 1..Len(Corpus) :
        Len(Corpus[i].embedding) = Len(Corpus[j].embedding)

----------------------------------------------------------------------------
(* Further properties of the ranking, checked under SpecSim *)

ZeroMagnitude(v) == \A i \in 1..Len(v) : v[i] = 0

(* C14 as stated: findSimilarChunks does not return when it had to score  *)
(* a passage and the query's vector or that passage's vector has zero      *)
(* magnitude, and no passage it returns has a NaN score.                   *)
C14_NoNaNScore ==
    Ranked =>
        /\ \A i \in 1..Len(simIn.chunks) :
               ~ZeroMagnitude(simOut.arg) /\ ~ZeroMagnitude(simIn.chunks[i].embedding)
        /\ \A j \in 1..Len(simOut.result) : ~simOut.result[j].similarity.nan

----------------------------------------------------------------------------
(* Properties of ingestion, checked under Spec *)

(* An upload that ended with processDocument's result. *)
IndexedOk(r) ==
    /\ reqs[r].op = "upload"
    /\ reqs[r].pc = "done"
    /\ reqs[r].resp.status = 200

(* C15 as stated: when two uploads have both succeeded, the corpus holds   *)
(* every passage of both, and as many passages as the two calls reported.  *)
C15_NoLostWrites ==
    (Len(reqs) = 2 /\ IndexedOk(1) /\ IndexedOk(2)) =>
        /\ Len(Corpus) = reqs[1].resp.body.data.chunks + reqs[2].resp.body.data.chunks
        /\ \A r \in 1..2 : \A k \in 1..Len(reqs[r].embeddedChunks) :
               \E i \in 1..Len(Corpus) : SamePassage(Corpus[i], reqs[r].embeddedChunks[k])

----------------------------------------------------------------------------
(* Further properties of the vector store, checked under SpecStore *)

(* clearAll has returned and no call of the interface was made since. *)
ClearedOk == storeOut.op = "clearAll" /\ storeOut.ok

IndexExists == backend = "qdrant" => qExists

StatsNow == IF backend = "memory" THEN memGetStats(arrays[chunksRef]) ELSE qGetStats(pointsCount(qPoints), qPoints)

(* C16 as stated: once clearAll has returned, the index exists and is      *)
(* empty: getAllChunks has no passage to return and getStats counts 0      *)
(* passages and no source; an addChunks that follows and succeeds leaves   *)
(* exactly its passages for getAllChunks to return.                        *)
C16_ClearedAndUsable ==
    [][/\ ClearedOk' =>
              (IndexExists /\ Len(ScanAll) = 0
                   /\ StatsNow = [totalChunks |-> 0, sources |-> <<>>])'
       /\ (ClearedOk /\ storeOut'.op = "addChunks") =>
              /\ IndexExists
              /\ storeOut'.ok =>
                     /\ \A k \in 1..Len(storeOut'.arg) :
                            \E i \in 1..Len(ScanAll') : ScanAll'[i].id = storeOut'.arg[k].id
                     /\ \A i \in 1..Len(ScanAll') :
                            \E k \in 1..Len(storeOut'.arg) :
                                SamePassage(ScanAll'[i], storeOut'.arg[k])]_vars

----------------------------------------------------------------------------
(* Further properties of ingestion, checked under Spec *)

(* C17 as stated: no two passages of the corpus have the same id. *)
C17_UniqueIds ==
    \A i, j \in 1..Len(Corpus) : i # j => Corpus[i].id # Corpus[j].id

----------------------------------------------------------------------------
(* Properties of the entry points, checked under SpecEntry *)

InvalidQuestion(question) == question.kind # "string" \/ question.val = <<>>

InvalidText(text) ==
    text.kind # "string" \/ \A i \in 1..Len(text.val) : text.val[i] \in WhiteSpace

(* C18: an ask request with a missing, non-string or empty question has    *)
(* ended with an error response and has called no collaborator; a chunk    *)
(* request with a missing, non-string, empty or whitespace-only text is    *)
(* answered with an error response and no passages. The error is a 400,    *)
(* or a 500 when the body is null or is not JSON.                          *)
C18_InvalidInputRejected ==
    /\ \A r \in 1..Len(reqs) :
           (reqs[r].op = "ask" /\ InvalidQuestion(reqs[r].question)) =>
               /\ reqs[r].pc = "done"
               /\ reqs[r].resp.status =
                      (IF reqs[r].question.kind \in {"null", "invalid"}
                       THEN 500 ELSE 400)
               /\ reqs[r].calls = NoCalls
    /\ (chunkResp # NoResp /\ InvalidText(chunkReq.text)) =>
           /\ chunkResp.status = (IF chunkReq.json = "object" THEN 400 ELSE 500)
           /\ chunkResp.chunks = <<>>

(* An empty question and a whitespace-only text were both rejected. *)
C18_Witness ==
    /\ \E r \in 1..Len(reqs) :
           /\ reqs[r].op = "ask"
           /\ reqs[r].question.kind = "string"
           /\ reqs[r].question.val = <<>>
           /\ reqs[r].resp.status = 400
    /\ chunkReq.text.kind = "string"
    /\ Len(chunkReq.text.val) > 0
    /\ InvalidText(chunkReq.text)
    /\ chunkResp.status = 400

----------------------------------------------------------------------------
(* Further properties of the chunker, checked under SpecChunk *)

(* The closes of chunk's loop from sentence i on, with buffer currentChunk: *)
(* for each, the closed buffer, the sentence that closed it and the buffer  *)
(* the loop went on with.                                                   *)
RECURSIVE closeSteps(_, _, _, _)
closeSteps(sentences, i, currentChunk, env) ==
    IF i > Len(sentences) THEN <<>>
    ELSE LET sentence == sentences[i]
             proposed == proposedChunk(currentChunk, sentence)
             nextChunk == seedChunk(getOverlapText(currentChunk, env.overlap), sentence)
         IN  IF closesChunk(proposed, currentChunk, env.chunkSize)
             THEN <<[closed |-> currentChunk, sentence |-> sentence, next |-> nextChunk]>>
                      \o closeSteps(sentences, i + 1, nextChunk, env)
             ELSE closeSteps(sentences, i + 1, proposed, env)

ClosesOfRequest ==
    closeSteps(splitIntoSentences(chunkReq.text.val), 1, <<>>,
               [chunkSize |-> chunkReq.chunkSize, overlap |-> chunkReq.overlap])

(* N = min(floor(wordCount * 0.3), overlap / 10) *)
ClaimedOverlapWords(closed, overlap) ==
    Min2((Len(Split(closed, {" "}, FALSE)) * 3) \div 10, overlap \div 10)

(* The last n words of the closed buffer, then the sentence; the sentence   *)
(* alone when n is 0.                                                       *)
ClaimedSeed(closed, n, sentence) ==
    LET words == Split(closed, {" "}, FALSE)
    IN  IF n = 0 THEN sentence
        ELSE Join(SubSeq(words, Len(words) - n + 1, Len(words))) \o <<" ">> \o sentence

(* C19 as stated: at every close the next buffer is the last N words of    *)
(* the closed buffer followed by the new sentence, and the new sentence    *)
(* alone when N is 0.                                                      *)
C19_SeedIsOverlapSuffix ==
    Chunked =>
        \A k \in 1..Len(ClosesOfRequest) :
            LET step == ClosesOfRequest[k]
            IN  step.next = ClaimedSeed(step.closed,
                                        ClaimedOverlapWords(step.closed, chunkReq.overlap),
                                        step.sentence)

----------------------------------------------------------------------------
(* Properties of the orchestrator's failure handling, checked under Spec *)

(* C20: after every step, each request has called the decoder, the index,  *)
(* the scan and the completion provider at most once and the embedding     *)
(* provider once per passage reached (once per question); a request with a *)
(* failed call has ended with an error; it made no embedding and no index  *)
(* call after a failed decoding, no index or completion call after a       *)
(* failed embedding and no embedding or completion call after a failed     *)
(* scan; a request whose decoding is awaited has made no other call; and a *)
(* request that has ended makes no further call.                           *)
C20_NoRetryStopAtFirstFailure ==
    [][\A r \in 1..Len(reqs') :
          LET q == reqs'[r]
          IN  /\ q.calls.decode <= 1
              /\ q.calls.decodeThrew <= q.calls.decode
              /\ q.calls.index <= 1
              /\ q.calls.scan <= 1
              /\ q.calls.chat <= 1
              /\ q.calls.embedThrew <= 1
              /\ q.calls.embed <= (IF q.op = "upload" THEN Len(q.chunks) ELSE 1)
              /\ q.op = "upload" => q.calls.embed = q.i
              /\ (q.resp.status = 500 \/ q.calls.embedThrew > 0 \/ q.calls.decodeThrew > 0) =>
                     (q.pc = "done" /\ q.resp.status = 500)
              /\ (q.calls.decodeThrew > 0 \/ q.pc = "decode") =>
                     (q.calls.embed = 0 /\ q.calls.index = 0 /\ q.chunks = <<>>)
              /\ q.calls.embedThrew > 0 => (q.calls.index = 0 /\ q.calls.chat = 0)
              /\ (q.op = "ask" /\ q.resp.status = 500 /\ q.seen = -1) =>
                     (q.calls.embed = 0 /\ q.calls.chat = 0)
              /\ (r <= Len(reqs) /\ reqs[r].pc = "done") => q = reqs[r]]_vars

(* The decoding of a pdf was awaited and failed: the upload ended there    *)
(* with an error and no embedding or index call; and in another upload the *)
(* embedding of the second passage failed, which ended it with no index    *)
(* call.                                                                   *)
C20_Witness ==
    \E r, u \in 1..Len(reqs) :
        /\ reqs[r].op = "upload"
        /\ extensionOf(reqs[r].file.name) = <<"p", "d", "f">>
        /\ reqs[r].calls.decode = 1
        /\ reqs[r].calls.decodeThrew = 1
        /\ reqs[r].calls.embed = 0
        /\ reqs[r].calls.index = 0
        /\ reqs[r].pc = "done"
        /\ reqs[r].resp.status = 500
        /\ reqs[u].op = "upload"
        /\ reqs[u].calls.embed = 2
        /\ reqs[u].calls.embedThrew = 1
        /\ reqs[u].calls.index = 0
        /\ reqs[u].pc = "done"
        /\ reqs[u].resp.status = 500

----------------------------------------------------------------------------
(* Properties of the chunker's offsets and sizes, checked under SpecChunk *)

(* C30: for chunkSize >= 1 and overlap >= 0, every returned passage has    *)
(* startChar 0 and endChar equal to the length of its content.             *)
C30_StartCharStaysZero ==
    Chunked =>
        \A i \in 1..Len(chunkResp.chunks) :
            /\ chunkResp.chunks[i].metadata.startChar = 0
            /\ chunkResp.chunks[i].metadata.endChar = Len(chunkResp.chunks[i].content)

(* Three passages were returned for "a b c d. e. f", the later ones seeded *)
(* with overlap text, and the last one starts at 0.                        *)
C30_Witness ==
    /\ Chunked
    /\ chunkReq.text.val = FourWordText
    /\ chunkReq.chunkSize = 4
    /\ Len(chunkResp.chunks) = 3
    /\ chunkResp.chunks[3].metadata.startChar = 0

(* C28 as stated: for chunkSize >= 1 and overlap >= 0, every returned      *)
(* passage that is not one sentence unit on its own (it holds overlap      *)
(* words or several sentences) has a content of at most chunkSize          *)
(* characters.                                                             *)
C28_MultiUnitPassageWithinChunkSize ==
    Chunked =>
        LET ss == splitIntoSentences(chunkReq.text.val)
            cs == chunkResp.chunks
        IN  \A i \in 1..Len(cs) :
                (\A k \in 1..Len(ss) : cs[i].content # ss[k]) =>
                    Len(cs[i].content) <= chunkReq.chunkSize

----------------------------------------------------------------------------
(* Properties of the selection made by the ranking, checked under SpecSim *)

AllScoresDefined == \A k \in 1..Len(simIn.chunks) : ~ScoreOf(simIn.chunks[k]).nan

ScoreGreater(x, y) == ~x.nan /\ ~y.nan /\ ScoreDiff(x, y) > 0

(* C27: when findSimilarChunks returns and every score is a number, no     *)
(* passage of the supplied corpus that is left out of the result scores    *)
(* strictly higher than a passage of the result.                           *)
C27_TopScoringRetained ==
    (Ranked /\ AllScoresDefined) =>
        \A k \in 1..Len(simIn.chunks), j \in 1..Len(simOut.result) :
            ~InResult(simIn.chunks[k]) =>
                ~ScoreGreater(ScoreOf(simIn.chunks[k]), simOut.result[j].similarity)

(* Three passages with scores rising along the corpus were ranked with     *)
(* limit 2: the first, lowest one was left out.                            *)
C27_Witness ==
    /\ Ranked
    /\ AllScoresDefined
    /\ simIn.limit = 2
    /\ Len(simIn.chunks) = 3
    /\ ScoreGreater(ScoreOf(simIn.chunks[3]), ScoreOf(simIn.chunks[2]))
    /\ ScoreGreater(ScoreOf(simIn.chunks[2]), ScoreOf(simIn.chunks[1]))
    /\ Len(simOut.result) = 2
    /\ ~InResult(simIn.chunks[1])

----------------------------------------------------------------------------
(* Properties of the Qdrant store's initialisation, checked under SpecStore *)

DataOps == {"addChunks", "getAllChunks", "getChunksBySource", "getStats"}

(* C29 as stated: in the Qdrant store, when addChunks, getAllChunks,       *)
(* getChunksBySource or getStats has sent its request, the constructor's   *)
(* initializeCollection has finished, no initializeCollection started by   *)
(* clearAll is under way, and the collection exists.                       *)
C29_InitPrecedesData ==
    (backend = "qdrant" /\ storeOut.op \in DataOps) =>
        /\ qInit[0] = "done"
        /\ \A k \in InitIds : qInit[k] \in {"none", "done"}
        /\ qExists

----------------------------------------------------------------------------
(* Properties of one ingestion's effect on the index, checked under Spec *)

(* getStats().totalChunks *)
TotalChunks == StatsNow.totalChunks

(* The step in which upload r ends with processDocument's result, no      *)
(* other request having run since r arrived: none was running then and    *)
(* none has arrived since.                                                 *)
EndsIndexed(r) ==
    /\ r = Len(reqs')
    /\ r = Len(reqs)
    /\ reqs'[r].op = "upload"
    /\ reqs'[r].before >= 0
    /\ reqs'[r].resp.status = 200
    /\ reqs[r].resp.status # 200

(* C22 as stated: when a processDocument call that ran alone succeeds and  *)
(* reports chunks = n, the count getStats reports is n greater than it was *)
(* when the call was made, and the passages beyond those the index held    *)
(* then carry the file's name as their source.                             *)
C22_CountGrowsByReported ==
    [][\A r \in 1..MaxReqs :
          EndsIndexed(r) =>
              /\ TotalChunks' = reqs'[r].before + reqs'[r].resp.body.data.chunks
              /\ \A i \in (reqs'[r].before + 1)..Len(Corpus') :
                     Corpus'[i].metadata.source = reqs'[r].file.name]_vars

----------------------------------------------------------------------------
(* Properties of embedChunks, checked under SpecIngest *)

(* The vectors the embedding provider answers. *)
ProvidedVectors == {outcome.vector : outcome \in {o \in IngestEmbeddings : o.ok}}

(* C23: after every step of an upload, the k-th call of createEmbedding    *)
(* was made with the content of the k-th chunk, and the k-th embedded      *)
(* chunk has the id, the content and the metadata of the k-th chunk and    *)
(* the vector that call returned; an embedded chunk, once in the list,     *)
(* keeps its place and its vector, and the list embedChunks returns has    *)
(* the length of its input.                                                *)
C23_EmbedChunksKeepsOrder ==
    [][\A r \in 1..Len(reqs') :
          LET q == reqs'[r]
          IN  q.op = "upload" =>
                  /\ Len(q.embeddedChunks) <= Len(q.chunks)
                  /\ Len(q.embeddedChunks) = Len(q.answered)
                  /\ Len(q.asked) = q.calls.embed
                  /\ \A k \in 1..Len(q.asked) : q.asked[k] = q.chunks[k].content
                  /\ \A k \in 1..Len(q.embeddedChunks) :
                         /\ q.embeddedChunks[k].id = q.chunks[k].id
                         /\ q.embeddedChunks[k].content = q.chunks[k].content
                         /\ q.embeddedChunks[k].metadata = q.chunks[k].metadata
                         /\ q.embeddedChunks[k].embedding = q.answered[k]
                         /\ q.answered[k] \in ProvidedVectors
                  /\ q.calls.index = 1 => Len(q.embeddedChunks) = Len(q.chunks)
                  /\ r <= Len(reqs) =>
                         /\ Len(reqs[r].embeddedChunks) <= Len(q.embeddedChunks)
                         /\ \A k \in 1..Len(reqs[r].embeddedChunks) :
                                q.embeddedChunks[k] = reqs[r].embeddedChunks[k]]_vars

(* The three chunks of b.md were embedded with two different vectors and   *)
(* indexed.                                                                *)
C23_Witness ==
    \E r \in 1..Len(reqs) :
        /\ IndexedOk(r)
        /\ Len(reqs[r].chunks) = 3
        /\ Len(reqs[r].embeddedChunks) = 3
        /\ reqs[r].embeddedChunks[1].embedding # reqs[r].embeddedChunks[2].embedding
        /\ reqs[r].embeddedChunks[3].id = reqs[r].chunks[3].id

----------------------------------------------------------------------------
(* Properties of the answer's attributions, checked under Spec *)

(* C24 as stated: an answer made from retrieved passages lists             *)
(* min(3, corpus size) attributions, the k-th with the source and the      *)
(* similarity of the k-th retrieved passage, and the similarities never    *)
(* increase along the list.                                                *)
C24_AttributionsFollowRetrieval ==
    \A r \in 1..Len(reqs) :
        Answered(r) =>
            LET sources == reqs[r].resp.body.sources
                retrieved == reqs[r].relevantChunks
            IN  /\ Len(sources) = Len(retrieved)
                /\ Len(sources) >= Min2(TopK, reqs[r].seen)
                /\ Len(sources) <= Min2(TopK, Len(Deref(reqs[r].allChunks, arrays)))
                /\ \A k \in 1..Len(sources) :
                       /\ sources[k].filename = retrieved[k].metadata.source
                       /\ sources[k].similarity = retrieved[k].similarity
                /\ \A k \in 1..(Len(sources) - 1) :
                       ScoreGeq(sources[k].similarity, sources[k + 1].similarity)

----------------------------------------------------------------------------
(* Termination of the requests, checked under SpecLive *)

(* The request is over: processDocument returned (indexed) or threw, or    *)
(* askQuestion returned (answered) or threw; or the route refused the      *)
(* request before it called either.                                        *)
Ended(r) ==
    /\ r <= Len(reqs)
    /\ reqs[r].pc = "done"
    /\ \/ reqs[r].op = "upload" /\ reqs[r].resp = Indexed(reqs[r])
       \/ reqs[r].op = "ask" /\ reqs[r].resp.status = 200
                             /\ reqs[r].calls.scan = 1 /\ reqs[r].seen >= 0
       \/ reqs[r].resp.status = 500 /\ reqs[r].calls.decode + reqs[r].calls.scan = 1
       \/ reqs[r].resp.status = 500 /\ reqs[r].calls = NoCalls
                                     /\ \/ reqs[r].file.kind = "string"
                                        \/ reqs[r].question.kind \in {"null", "invalid"}
       \/ reqs[r].resp.status = 400 /\ reqs[r].calls = NoCalls

(* C25: every request that was received eventually ends, indexed,         *)
(* answered or failed.                                                     *)
C25_EveryRequestEnds ==
    \A r \in 1..MaxReqs : [](r <= Len(reqs) => <>Ended(r))

(* The upload of a pdf, whose decoding was awaited, ended indexed and a    *)
(* question asked after it ended failed.                                   *)
C25_Witness ==
    /\ Len(reqs) = 2
    /\ Ended(1) /\ IndexedOk(1)
    /\ reqs[1].pdfData = PdfParsed /\ reqs[1].metadata.pages = 1
    /\ Ended(2) /\ reqs[2].op = "ask" /\ reqs[2].resp.status = 500

----------------------------------------------------------------------------
(* Properties of the stored corpus, checked under SpecCorpus *)

IsPrefix(xs, ys) == Len(xs) <= Len(ys) /\ SubSeq(ys, 1, Len(xs)) = xs

(* C21: every step other than a clearAll leaves each stored passage at its *)
(* position with its id, content, vector and metadata; what is added comes *)
(* after the passages already stored.                                      *)
C21_StoredPassagesKept ==
    [][IF chunksRef' = chunksRef
       THEN IsPrefix(arrays[chunksRef], arrays'[chunksRef])
       ELSE storeOut'.op = "clearAll"]_vars

(* a.txt was ingested again: the store holds the earlier passage and,      *)
(* after it, the new one, and getChunksBySource returned both.             *)
C21_Witness ==
    /\ IsPrefix(EarlierCorpus, arrays[chunksRef])
    /\ Len(arrays[chunksRef]) = 2
    /\ arrays[chunksRef][2].metadata.source = EarlierFile.name
    /\ \E r \in 1..Len(reqs) : IndexedOk(r) /\ reqs[r].file = EarlierFile
    /\ storeOut.op = "getChunksBySource"
    /\ Len(storeOut.result) = 2

(* The passages xs lie in ys one after the other, or none of them is in ys. *)
WholeOrAbsent(xs, ys) ==
    \/ \E off \in 0..(Len(ys) - Len(xs)) : SubSeq(ys, off + 1, off + Len(xs)) = xs
    \/ \A k \in 1..Len(xs), i \in 1..Len(ys) : ys[i] # xs[k]

(* C26: in the step in which a question's passages are scored, they are   *)
(* the array the request holds as it is at that instant, which is the      *)
(* corpus or, after a clearAll during the call, the corpus as the clearAll *)
(* found it: clearAll leaves that array whole and no step writes to it     *)
(* afterwards; and it holds all the passages of an upload that has called  *)
(* addChunks, or none of them.                                             *)
C26_QueryScoresSnapshot ==
    [][/\ \A k \in 1..Len(arrays) : k # chunksRef => arrays'[k] = arrays[k]
       /\ chunksRef' # chunksRef =>
              /\ arrays'[chunksRef] = arrays[chunksRef]
              /\ arrays'[chunksRef'] = <<>>
       /\ \A r \in 1..Len(reqs) :
              (reqs[r].pc = "embedQuery" /\ reqs'[r].pc = "chat") =>
                  LET scored == Deref(reqs[r].allChunks, arrays)
                  IN  /\ \E v \in ProvidedVectors :
                             reqs'[r].relevantChunks = rankChunks(v, scored, TopK)
                      /\ reqs[r].allChunks.ref = chunksRef => scored = Corpus
                      /\ \A u \in 1..Len(reqs) :
                             (reqs[u].op = "upload" /\ reqs[u].calls.index = 1) =>
                                 WholeOrAbsent(reqs[u].embeddedChunks, scored)]_vars

(* A question found one passage when it read the corpus; an upload of      *)
(* three passages called addChunks before the question's embedding came    *)
(* back, and the question scored all four.                                 *)
C26_Witness ==
    \E r, u \in 1..Len(reqs) :
        /\ reqs[r].op = "ask"
        /\ reqs[r].seen = 1
        /\ reqs[r].pc = "chat"
        /\ Len(reqs[r].relevantChunks) = 3
        /\ IndexedOk(u)
        /\ Len(reqs[u].embeddedChunks) = 3
        /\ \E k \in 1..3 : reqs[r].relevantChunks[k].id = reqs[u].embeddedChunks[1].id

====
